---- MODULE Spec2Model ----
(***************************************************************************)
(* Bookmarks manager: the SQLite store (folders, tags, bookmarks,          *)
(* bookmark_tags), the request-scoped connection of app/utils/database.py  *)
(* and the folder, tag and bookmark services built on it.                  *)
(*                                                                         *)
(* A row id (a uuid4 string in the code) is a positive integer taken from  *)
(* a per-table counter, so ids are fresh and never reused; the integer     *)
(* order is the insertion (rowid) order of the table.  None/NULL is 0.     *)
(* Text columns of bookmarks are sequences of character codes.             *)
(***************************************************************************)
EXTENDS Integers, Sequences, FiniteSets, TLC

\* Python None / SQL NULL
NULL == 0

\* bounds of the model
MaxFolders == 3
MaxBookmarks == 3
MaxTags == 2
MaxClock == 2
MaxTagList == 3
MaxFiledFolders == 2
MaxTaggedBookmarks == 1
MaxFiledBookmarks == 2
MaxPage == 4
MaxPerPage == 2
MaxPagedBookmarks == 3
MaxSearchedBookmarks == 2
MaxAnnotatedBookmarks == 2
MaxExportedFolders == 2
MaxExportedBookmarks == 2
MaxInnerChildren == 2
MaxTopChildren == 1
MaxImportedLeaves == 2
MaxTaggedLeaves == 2
MaxContent == 4
MaxRacedFolders == 3
MaxToggles == 2
MaxPinnedBookmarks == 2
MaxSavedFolders == 2
MaxTouchClock == 3
MaxTouchedBookmarks == 1

\* texts are sequences of character codes
\* folder names "W" and "P"
FolderNames == {<<87>>, <<80>>}
\* tag names "py" and "web"
TagNames == {<<112, 121>>, <<119, 101, 98>>}

\* titles of bookmarks, as character codes: "Ab" and "a"
Titles == {<<65, 98>>, <<97>>}

\* the values of the sort and order query parameters
SortFields == {"title", "url", "created_at", "name"}
SortOrders == {"asc", "desc"}

\* per_page of the index and search pages
PerPage == 25

VARIABLES db, nextId, clock, last

vars == <<db, nextId, clock, last>>

----------------------------------------------------------------------------
(* helpers *)

Range(s) == {s[i] : i \in 1..Len(s)}

\* the rows of a key set in rowid (insertion) order
RECURSIVE RowidOrder(_)
RowidOrder(S) ==
    IF S = {} THEN <<>>
    ELSE LET m == CHOOSE x \in S : \A y \in S : x <= y
         IN <<m>> \o RowidOrder(S \ {m})

\* table with row k added or replaced
Put(table, k, row) == [i \in DOMAIN table \cup {k} |-> IF i = k THEN row ELSE table[i]]

\* table without the rows of keys K
Drop(table, K) == [i \in DOMAIN table \ K |-> table[i]]

----------------------------------------------------------------------------
(* app/utils/database.py *)

\* the schema of init_db: four empty tables
EmptyStore ==
    [folders |-> <<>>, tags |-> <<>>, bookmarks |-> <<>>, bookmark_tags |-> {}]

\* get_db opens the connection with sqlite3.connect and never issues
\* PRAGMA foreign_keys = ON, so SQLite does not enforce the FOREIGN KEY
\* clauses of the schema (neither the checks nor the ON DELETE actions)
ForeignKeysOn == TRUE
ForeignKeysEnforced == FALSE

\* get_db: a request's connection; disk is the committed database,
\* work the view of the connection including its open transaction
get_db(store) == [disk |-> store, work |-> store]

\* db.commit()
commit(conn) == [disk |-> conn.work, work |-> conn.work]

\* close_db at request teardown: closing the connection without commit
\* discards the open transaction
close_db_keeps_transaction(conn) == conn.work

close_db(conn) == conn.disk

\* the referential actions of the schema, applied by SQLite only when
\* foreign keys are enforced: ON DELETE CASCADE on folders.parent_id,
\* ON DELETE SET NULL on bookmarks.folder_id
RECURSIVE CascadeFolders(_, _)
CascadeFolders(folders, gone) ==
    LET more == {i \in DOMAIN folders : folders[i].parent_id \in gone} \ gone
    IN IF more = {} THEN gone ELSE CascadeFolders(folders, gone \cup more)

DeleteFolderRows(store, ids) ==
    LET gone == IF ForeignKeysEnforced THEN CascadeFolders(store.folders, ids) ELSE ids
    IN [store EXCEPT
          !.folders = Drop(store.folders, gone),
          !.bookmarks =
              IF ForeignKeysEnforced
              THEN [b \in DOMAIN store.bookmarks |->
                      IF store.bookmarks[b].folder_id \in gone
                      THEN [store.bookmarks[b] EXCEPT !.folder_id = NULL]
                      ELSE store.bookmarks[b]]
              ELSE store.bookmarks]

\* ON DELETE CASCADE on bookmark_tags.bookmark_id
DeleteBookmarkRows(store, ids) ==
    [store EXCEPT
        !.bookmarks = Drop(store.bookmarks, ids),
        !.bookmark_tags =
            IF ForeignKeysEnforced
            THEN {bt \in store.bookmark_tags : bt[1] \notin ids}
            ELSE store.bookmark_tags]

\* the FOREIGN KEY check of an inserted or updated reference
FkOk(ref, table) == ~ForeignKeysEnforced \/ ref = NULL \/ ref \in DOMAIN table

----------------------------------------------------------------------------
(* app/services/folder_service.py *)

\* get_folder_with_descendants: the nested get_descendants; children come
\* from SELECT id FROM folders WHERE parent_id = ? (no row matches NULL)
get_descendants_children_only(folders, parent_id) ==
    <<parent_id>> \o RowidOrder({i \in DOMAIN folders :
                          parent_id # NULL /\ folders[i].parent_id = parent_id})

RECURSIVE get_descendants(_, _), extend_children(_, _)
get_descendants(folders, parent_id) ==
    LET children == RowidOrder({i \in DOMAIN folders :
                          parent_id # NULL /\ folders[i].parent_id = parent_id})
    IN <<parent_id>> \o extend_children(folders, children)

extend_children(folders, children) ==
    IF children = <<>> THEN <<>>
    ELSE get_descendants(folders, Head(children))
           \o extend_children(folders, Tail(children))

get_folder_with_descendants(conn, folder_id) ==
    get_descendants(conn.work.folders, folder_id)

\* create_folder: INSERT and commit
create_folder(conn, id, name, parent_id, now) ==
    IF FkOk(parent_id, conn.work.folders)
    THEN [conn |-> commit([conn EXCEPT !.work.folders =
                     Put(@, id, [name |-> name, parent_id |-> parent_id,
                                 created_at |-> now])]),
          raised |-> "none"]
    ELSE [conn |-> conn, raised |-> "IntegrityError"]

\* the descendant check of update_folder
CyclicCheckSelfExempt(conn, folder_id, parent_id) ==
    /\ parent_id # NULL
    /\ parent_id # folder_id
    /\ parent_id \in Range(get_folder_with_descendants(conn, folder_id))

IsCyclicMove(conn, folder_id, parent_id) ==
    /\ parent_id # NULL
    /\ parent_id \in Range(get_folder_with_descendants(conn, folder_id))

update_folder_write_first(conn, folder_id, name, parent_id, now) ==
    LET written == commit([conn EXCEPT !.work.folders =
                     IF folder_id \in DOMAIN @
                     THEN Put(@, folder_id, [name |-> name, parent_id |-> @[folder_id].parent_id,
                                             created_at |-> now])
                     ELSE @])
    IN IF IsCyclicMove(conn, folder_id, parent_id)
       THEN [conn |-> written, raised |-> "ValueError"]
       ELSE [conn |-> commit([written EXCEPT !.work.folders =
                     IF folder_id \in DOMAIN @
                     THEN Put(@, folder_id, [name |-> name, parent_id |-> parent_id,
                                             created_at |-> now])
                     ELSE @]),
             raised |-> "none"]

update_folder_without_trigger(conn, folder_id, name, parent_id, now) ==
    IF IsCyclicMove(conn, folder_id, parent_id)
    THEN [conn |-> conn, raised |-> "ValueError"]
    ELSE IF ~FkOk(parent_id, conn.work.folders)
    THEN [conn |-> conn, raised |-> "IntegrityError"]
    ELSE [conn |-> commit([conn EXCEPT !.work.folders =
                     IF folder_id \in DOMAIN @
                     THEN Put(@, folder_id, [name |-> name, parent_id |-> parent_id,
                                             created_at |-> @[folder_id].created_at])
                     ELSE @]),
          raised |-> "none"]

\* update_folder: check, UPDATE (the update_folders_timestamp trigger
\* refreshes created_at) and commit
update_folder(conn, folder_id, name, parent_id, now) ==
    IF IsCyclicMove(conn, folder_id, parent_id)
    THEN [conn |-> conn, raised |-> "ValueError"]
    ELSE IF ~FkOk(parent_id, conn.work.folders)
    THEN [conn |-> conn, raised |-> "IntegrityError"]
    ELSE [conn |-> commit([conn EXCEPT !.work.folders =
                     IF folder_id \in DOMAIN @
                     THEN Put(@, folder_id, [name |-> name, parent_id |-> parent_id,
                                             created_at |-> now])
                     ELSE @]),
          raised |-> "none"]

\* delete_folder: DELETE FROM folders WHERE id = ? and commit
delete_folder(conn, folder_id) ==
    [conn |-> commit([conn EXCEPT !.work = DeleteFolderRows(@, {folder_id})]),
     raised |-> "none"]

\* update_folder in two steps, as its statements run: the descendant check
\* (IsCyclicMove) and then the UPDATE with its commit
update_folder_write(conn, folder_id, name, parent_id, now) ==
    IF ~FkOk(parent_id, conn.work.folders)
    THEN [conn |-> conn, raised |-> "IntegrityError"]
    ELSE [conn |-> commit([conn EXCEPT !.work.folders =
                     IF folder_id \in DOMAIN @
                     THEN Put(@, folder_id, [name |-> name, parent_id |-> parent_id,
                                             created_at |-> now])
                     ELSE @]),
          raised |-> "none"]

\* get_descendants never returns normally when a folder is its own
\* descendant: the call for a folder already on the call stack repeats the
\* calls below it until the interpreter raises RecursionError
RECURSIVE get_descendants_overflows(_, _, _)
get_descendants_overflows(folders, parent_id, stack) ==
    \/ parent_id \in stack
    \/ \E child \in {i \in DOMAIN folders :
                       parent_id # NULL /\ folders[i].parent_id = parent_id} :
          get_descendants_overflows(folders, child, stack \cup {parent_id})

\* the while loop of get_folder: each stored parent is put at the front of
\* parent_chain; a parent that is not stored breaks the loop; a parent met a
\* second time means the loop goes round for ever (ends is FALSE)
RECURSIVE parent_chain_loop(_, _, _)
parent_chain_loop(folders, current_parent_id, parent_chain) ==
    IF current_parent_id = NULL \/ current_parent_id \notin DOMAIN folders
    THEN [ends |-> TRUE, parent_chain |-> parent_chain]
    ELSE IF current_parent_id \in Range(parent_chain)
    THEN [ends |-> FALSE, parent_chain |-> parent_chain]
    ELSE parent_chain_loop(folders, folders[current_parent_id].parent_id,
                           <<current_parent_id>> \o parent_chain)

\* get_folder: None (the empty list) for an unknown id, otherwise the folder
\* with its parent_chain
get_folder(conn, folder_id) ==
    IF folder_id \notin DOMAIN conn.work.folders THEN [ends |-> TRUE, value |-> <<>>]
    ELSE LET loop == parent_chain_loop(conn.work.folders,
                                       conn.work.folders[folder_id].parent_id, <<>>)
         IN [ends |-> loop.ends,
             value |-> IF loop.ends
                       THEN <<[id |-> folder_id, parent_chain |-> loop.parent_chain]>>
                       ELSE <<>>]

----------------------------------------------------------------------------
(* app/services/tag_service.py *)

\* create_tag: INSERT (tags.name is UNIQUE) and commit
create_tag(conn, id, name, now) ==
    IF \E t \in DOMAIN conn.work.tags : conn.work.tags[t].name = name
    THEN [conn |-> conn, raised |-> "IntegrityError"]
    ELSE [conn |-> commit([conn EXCEPT !.work.tags =
                     Put(@, id, [name |-> name, created_at |-> now])]),
          raised |-> "none"]

\* update_tag: UPDATE tags SET name (tags.name is UNIQUE; the
\* update_tags_timestamp trigger refreshes created_at) and commit
update_tag(conn, tag_id, name, now) ==
    IF tag_id \notin DOMAIN conn.work.tags THEN [conn |-> commit(conn), raised |-> "none"]
    ELSE IF \E t \in DOMAIN conn.work.tags \ {tag_id} : conn.work.tags[t].name = name
    THEN [conn |-> conn, raised |-> "IntegrityError"]
    ELSE [conn |-> commit([conn EXCEPT !.work.tags =
                     Put(@, tag_id, [name |-> name, created_at |-> now])]),
          raised |-> "none"]

\* delete_tag: DELETE the tag's bookmark_tags rows, DELETE the tag, commit
delete_tag(conn, tag_id) ==
    [conn |-> commit([conn EXCEPT
                 !.work.bookmark_tags = {bt \in @ : bt[2] # tag_id},
                 !.work.tags = Drop(@, {tag_id})]),
     raised |-> "none"]

----------------------------------------------------------------------------
(* app/services/bookmark_service.py *)

\* for tag_id in tag_ids: INSERT INTO bookmark_tags; the composite primary
\* key (and the foreign keys, when enforced) make an insert raise, which
\* ends the loop with the earlier rows in the open transaction
RECURSIVE insert_bookmark_tags(_, _, _)
insert_bookmark_tags(work, bookmark_id, tag_ids) ==
    IF tag_ids = <<>> THEN [work |-> work, raised |-> "none"]
    ELSE LET row == <<bookmark_id, Head(tag_ids)>>
         IN IF \/ row \in work.bookmark_tags
               \/ ~FkOk(bookmark_id, work.bookmarks)
               \/ ~FkOk(Head(tag_ids), work.tags)
            THEN [work |-> work, raised |-> "IntegrityError"]
            ELSE insert_bookmark_tags(
                     [work EXCEPT !.bookmark_tags = @ \cup {row}],
                     bookmark_id, Tail(tag_ids))

\* DELETE FROM bookmark_tags WHERE bookmark_id = ?
keep_bookmark_tags(work, bookmark_id) == work

delete_bookmark_tags(work, bookmark_id) ==
    [work EXCEPT !.bookmark_tags = {bt \in @ : bt[1] # bookmark_id}]

\* create_bookmark: INSERT the row (pinned defaults to 0), INSERT its tag
\* rows, commit
create_bookmark(conn, id, url, title, description, folder_id, tag_ids, favicon, now) ==
    IF ~FkOk(folder_id, conn.work.folders)
    THEN [conn |-> conn, raised |-> "IntegrityError"]
    ELSE LET inserted == [conn.work EXCEPT !.bookmarks =
                            Put(@, id, [url |-> url, title |-> title,
                                        description |-> description,
                                        favicon |-> favicon, folder_id |-> folder_id,
                                        pinned |-> 0, created_at |-> now])]
             tagged == insert_bookmark_tags(inserted, id, tag_ids)
         IN IF tagged.raised = "none"
            THEN [conn |-> commit([conn EXCEPT !.work = tagged.work]), raised |-> "none"]
            ELSE [conn |-> [conn EXCEPT !.work = tagged.work], raised |-> tagged.raised]

\* update_bookmark: UPDATE the row (favicon only when one is given; the
\* update_bookmarks_timestamp trigger refreshes created_at), DELETE all its
\* tag rows, INSERT the new ones, commit
update_bookmark(conn, bookmark_id, url, title, description, folder_id, tag_ids, favicon, now) ==
    IF ~FkOk(folder_id, conn.work.folders)
    THEN [conn |-> conn, raised |-> "IntegrityError"]
    ELSE LET updated == [conn.work EXCEPT !.bookmarks =
                            IF bookmark_id \in DOMAIN @
                            THEN Put(@, bookmark_id,
                                     [@[bookmark_id] EXCEPT
                                         !.url = url, !.title = title,
                                         !.description = description,
                                         !.folder_id = folder_id,
                                         !.favicon = IF favicon # NULL THEN favicon ELSE @,
                                         !.created_at = now])
                            ELSE @]
             cleared == delete_bookmark_tags(updated, bookmark_id)
             tagged == insert_bookmark_tags(cleared, bookmark_id, tag_ids)
         IN IF tagged.raised = "none"
            THEN [conn |-> commit([conn EXCEPT !.work = tagged.work]), raised |-> "none"]
            ELSE [conn |-> [conn EXCEPT !.work = tagged.work], raised |-> tagged.raised]

\* delete_bookmark: DELETE FROM bookmarks WHERE id = ? and commit
delete_bookmark(conn, bookmark_id) ==
    [conn |-> commit([conn EXCEPT !.work = DeleteBookmarkRows(@, {bookmark_id})]),
     raised |-> "none"]

toggle_pin_always_pins(conn, bookmark_id, now) ==
    IF bookmark_id \in DOMAIN conn.work.bookmarks
    THEN LET new_pinned == 1
         IN [conn |-> commit([conn EXCEPT !.work.bookmarks[bookmark_id] =
                         [@ EXCEPT !.pinned = new_pinned, !.created_at = now]]),
             raised |-> "none", value |-> <<new_pinned>>]
    ELSE [conn |-> conn, raised |-> "none", value |-> <<>>]

\* toggle_pin: 0 if pinned else 1, UPDATE (the trigger refreshes
\* created_at), commit; None when the bookmark is not stored
toggle_pin(conn, bookmark_id, now) ==
    IF bookmark_id \in DOMAIN conn.work.bookmarks
    THEN LET new_pinned == IF conn.work.bookmarks[bookmark_id].pinned # 0 THEN 0 ELSE 1
         IN [conn |-> commit([conn EXCEPT !.work.bookmarks[bookmark_id] =
                         [@ EXCEPT !.pinned = new_pinned, !.created_at = now]]),
             raised |-> "none", value |-> <<new_pinned>>]
    ELSE [conn |-> conn, raised |-> "none", value |-> <<>>]

\* the tag ids of the bookmark_tags rows of a bookmark
TagsOf(store, bookmark_id) == {bt[2] : bt \in {x \in store.bookmark_tags : x[1] = bookmark_id}}

\* the text of an id: a uuid4 string, which holds no comma, as one symbol
IdText(id) == <<id>>

\* get_bookmark: None (the empty list) for an unknown id, otherwise the row
\* with the tags of the JOIN of tags and bookmark_tags
get_bookmark(conn, bookmark_id) ==
    IF bookmark_id \notin DOMAIN conn.work.bookmarks THEN <<>>
    ELSE LET ts == RowidOrder(TagsOf(conn.work, bookmark_id) \cap DOMAIN conn.work.tags)
         IN <<[id |-> bookmark_id,
               tags |-> [i \in 1..Len(ts) |->
                            [id |-> IdText(ts[i]), name |-> conn.work.tags[ts[i]].name]]]>>

----------------------------------------------------------------------------
(* get_all_bookmarks of app/services/bookmark_service.py *)

\* ASCII case folding of SQLite's LIKE
Fold(c) == IF c \in 65..90 THEN c + 32 ELSE c

\* text LIKE pattern: % (37) matches any run of characters, _ (95) any one
\* character, anything else itself up to ASCII case
RECURSIVE Like(_, _)
Like(pattern, text) ==
    IF pattern = <<>> THEN text = <<>>
    ELSE IF Head(pattern) = 37
    THEN Like(Tail(pattern), text) \/ (text # <<>> /\ Like(pattern, Tail(text)))
    ELSE /\ text # <<>>
         /\ Head(pattern) = 95 \/ Fold(Head(pattern)) = Fold(Head(text))
         /\ Like(Tail(pattern), Tail(text))

\* comparison of two TEXT values (BINARY collation: byte by byte, a proper
\* prefix first)
RECURSIVE TextLess(_, _)
TextLess(a, b) ==
    IF a = <<>> THEN b # <<>>
    ELSE IF b = <<>> THEN FALSE
    ELSE IF Head(a) = Head(b) THEN TextLess(Tail(a), Tail(b))
    ELSE Head(a) < Head(b)

\* the rows of bookmarks b LEFT JOIN folders f LEFT JOIN bookmark_tags bt
\* LEFT JOIN tags t: one per tag row of the bookmark, or one without tag
JoinRows(store) ==
    UNION { LET folder_id == store.bookmarks[b].folder_id
                f == IF folder_id \in DOMAIN store.folders THEN folder_id ELSE NULL
                bts == TagsOf(store, b)
            IN IF bts = {}
               THEN {[b |-> b, f |-> f, bt |-> NULL, t |-> NULL]}
               ELSE {[b |-> b, f |-> f, bt |-> x,
                      t |-> IF x \in DOMAIN store.tags THEN x ELSE NULL] : x \in bts}
          : b \in DOMAIN store.bookmarks }

\* folder_id == 'unfiled'
UNFILED == -1

\* folder_ids: the folder with its descendants, or the folder alone
scope_folder_ids_always_descendants(conn, folder_id, include_subfolders) ==
    IF folder_id # NULL /\ folder_id # UNFILED
    THEN get_folder_with_descendants(conn, folder_id)
    ELSE <<>>

scope_folder_ids(conn, folder_id, include_subfolders) ==
    IF folder_id # NULL /\ folder_id # UNFILED
    THEN IF include_subfolders
         THEN get_folder_with_descendants(conn, folder_id)
         ELSE <<folder_id>>
    ELSE <<>>

\* the WHERE clause built for count_query
count_where(store, row, is_unfiled, folder_ids, tag_id, search) ==
    LET bm == store.bookmarks[row.b]
        search_term == <<37>> \o search \o <<37>>
    IN /\ IF is_unfiled THEN bm.folder_id = NULL
          ELSE folder_ids # <<>> => bm.folder_id \in Range(folder_ids)
       /\ tag_id # NULL => <<row.b, tag_id>> \in store.bookmark_tags
       /\ search # <<>> => \/ Like(search_term, bm.title)
                           \/ Like(search_term, bm.url)
                           \/ Like(search_term, bm.description)

\* the WHERE clause built for query
query_where(store, row, is_unfiled, folder_ids, tag_id, search) ==
    LET bm == store.bookmarks[row.b]
        search_term == <<37>> \o search \o <<37>>
    IN /\ IF is_unfiled THEN bm.folder_id = NULL
          ELSE folder_ids # <<>> => bm.folder_id \in Range(folder_ids)
       /\ tag_id # NULL => <<row.b, tag_id>> \in store.bookmark_tags
       /\ search # <<>> => \/ Like(search_term, bm.title)
                           \/ Like(search_term, bm.url)
                           \/ Like(search_term, bm.description)

\* SELECT COUNT(DISTINCT b.id)
count_rows(rows) == Cardinality(rows)

count_distinct(rows) == Cardinality({r.b : r \in rows})

\* GROUP BY b.id: one row per bookmark
group_by_id(rows) == RowidOrder({r.b : r \in rows})

\* valid_sorts.get(sort_by, 'b.created_at')
sort_column_of(sort_by) ==
    IF sort_by \in {"title", "url", "created_at"} THEN sort_by ELSE "created_at"

\* 'ASC' if sort_order == 'asc' else 'DESC'
sort_direction_of(sort_order) == IF sort_order = "asc" THEN "ASC" ELSE "DESC"

\* value x of the sort column is smaller than value y
ColumnLess(sort_column, x, y) ==
    CASE sort_column = "title" -> TextLess(x.title, y.title)
      [] sort_column = "url" -> TextLess(x.url, y.url)
      [] sort_column = "created_at" -> x.created_at < y.created_at
      [] OTHER -> FALSE

\* ORDER BY b.pinned DESC, {sort_column} {sort_direction}: row x sorts
\* strictly before row y
order_by_direction_first(sort_column, sort_direction, x, y) ==
    IF sort_direction = "ASC"
    THEN x.pinned < y.pinned \/ (x.pinned = y.pinned /\ ColumnLess(sort_column, x, y))
    ELSE x.pinned > y.pinned \/ (x.pinned = y.pinned /\ ColumnLess(sort_column, y, x))

order_by(sort_column, sort_direction, x, y) ==
    IF x.pinned # y.pinned THEN x.pinned > y.pinned
    ELSE IF sort_direction = "ASC" THEN ColumnLess(sort_column, x, y)
    ELSE ColumnLess(sort_column, y, x)

\* the sorter: rows with equal keys keep the order they arrive in
RECURSIVE sort_insert(_, _, _, _, _), sort_rows(_, _, _, _)
sort_insert(store, sort_column, sort_direction, id, sorted) ==
    IF sorted = <<>> THEN <<id>>
    ELSE IF order_by(sort_column, sort_direction,
                     store.bookmarks[id], store.bookmarks[Head(sorted)])
    THEN <<id>> \o sorted
    ELSE <<Head(sorted)>>
           \o sort_insert(store, sort_column, sort_direction, id, Tail(sorted))

sort_rows(store, sort_column, sort_direction, ids) ==
    IF ids = <<>> THEN <<>>
    ELSE sort_insert(store, sort_column, sort_direction, ids[Len(ids)],
                     sort_rows(store, sort_column, sort_direction,
                               SubSeq(ids, 1, Len(ids) - 1)))

\* GROUP_CONCAT(x, ','): the texts joined with commas (44), NULL (no text,
\* which like '' is false in Python) when there is none
RECURSIVE GROUP_CONCAT(_)
GROUP_CONCAT(texts) ==
    IF texts = <<>> THEN <<>>
    ELSE IF Len(texts) = 1 THEN texts[1]
    ELSE texts[1] \o <<44>> \o GROUP_CONCAT(Tail(texts))

\* str.split(','): the pieces between the commas of a text
RECURSIVE split(_)
split(text) ==
    IF \A i \in 1..Len(text) : text[i] # 44 THEN <<text>>
    ELSE LET i == CHOOSE k \in 1..Len(text) :
                      text[k] = 44 /\ \A j \in 1..(k - 1) : text[j] # 44
         IN <<SubSeq(text, 1, i - 1)>> \o split(SubSeq(text, i + 1, Len(text)))

\* zip(tag_ids, tag_names) as a list of {'id': tid, 'name': tname}
zip_tags(tag_ids, tag_names) ==
    [i \in 1..(IF Len(tag_ids) < Len(tag_names) THEN Len(tag_ids) ELSE Len(tag_names))
        |-> [id |-> tag_ids[i], name |-> tag_names[i]]]

\* the columns added to a listed bookmark: f.name as folder_name (no name for
\* NULL, otherwise the name alone in a list), the two GROUP_CONCAT columns
\* over the stored tags of its bookmark_tags rows, and the tags list
bookmark_row(store, b) ==
    LET folder_id == store.bookmarks[b].folder_id
        ts == RowidOrder(TagsOf(store, b) \cap DOMAIN store.tags)
        tag_names == GROUP_CONCAT([i \in 1..Len(ts) |-> store.tags[ts[i]].name])
        tag_ids == GROUP_CONCAT([i \in 1..Len(ts) |-> IdText(ts[i])])
    IN [id |-> b,
        folder_name |-> IF folder_id \in DOMAIN store.folders
                        THEN <<store.folders[folder_id].name>> ELSE <<>>,
        tag_names |-> tag_names,
        tag_ids |-> tag_ids,
        tags |-> IF tag_names # <<>>
                 THEN zip_tags(split(tag_ids), split(tag_names)) ELSE <<>>]

\* LIMIT {per_page} OFFSET {offset}
limit_offset_one_more(rows, per_page, offset) ==
    SubSeq(rows, offset + 1, IF offset + per_page + 1 < Len(rows)
                             THEN offset + per_page + 1 ELSE Len(rows))

limit_offset(rows, per_page, offset) ==
    SubSeq(rows, offset + 1, IF offset + per_page < Len(rows)
                             THEN offset + per_page ELSE Len(rows))

get_all_bookmarks(conn, folder_id, tag_id, search, sort_by, sort_order, include_subfolders, page, per_page) ==
    LET store == conn.work
        is_unfiled == folder_id = UNFILED
        folder_ids == scope_folder_ids(conn, folder_id, include_subfolders)
        total == count_distinct({r \in JoinRows(store) :
                     count_where(store, r, is_unfiled, folder_ids, tag_id, search)})
        grouped == group_by_id({r \in JoinRows(store) :
                     query_where(store, r, is_unfiled, folder_ids, tag_id, search)})
        ordered == sort_rows(store, sort_column_of(sort_by),
                             sort_direction_of(sort_order), grouped)
        offset == (page - 1) * per_page
        listed == limit_offset(ordered, per_page, offset)
    IN [bookmarks |-> listed,
        rows |-> [i \in 1..Len(listed) |-> bookmark_row(store, listed[i])],
        total |-> total,
        page |-> page,
        per_page |-> per_page,
        total_pages |-> (total + per_page - 1) \div per_page]

----------------------------------------------------------------------------
(* get_folder_hierarchy of app/services/folder_service.py *)

\* _strip_emoji_for_sort(name).lower(): the letters and digits, in lower case
RECURSIVE sort_key(_)
sort_key(text) ==
    IF text = <<>> THEN <<>>
    ELSE IF Head(text) \in (48..57) \cup (65..90) \cup (97..122)
    THEN <<Fold(Head(text))>> \o sort_key(Tail(text))
    ELSE sort_key(Tail(text))

\* list.sort(key=...): stable, folders of equal key stay in the order of the
\* query
RECURSIVE sort_folders(_, _)
sort_folders(folders, ids) ==
    IF ids = <<>> THEN <<>>
    ELSE LET sorted == sort_folders(folders, SubSeq(ids, 1, Len(ids) - 1))
             id == ids[Len(ids)]
             before == {i \in 1..Len(sorted) :
                           ~TextLess(sort_key(folders[id].name),
                                     sort_key(folders[sorted[i]].name))}
         IN SubSeq(sorted, 1, Cardinality(before)) \o <<id>>
              \o SubSeq(sorted, Cardinality(before) + 1, Len(sorted))

\* get_folder_hierarchy: the folders without parent, each with the folders
\* that name it as parent nested as children; only folders below a root are
\* visited
RECURSIVE hierarchy_below(_, _)
hierarchy_below(folders, folder_list) ==
    [i \in 1..Len(folder_list) |->
        [id |-> folder_list[i],
         children |-> hierarchy_below(
             folders,
             sort_folders(folders,
                          RowidOrder({c \in DOMAIN folders :
                                         folders[c].parent_id = folder_list[i]})))]]

get_folder_hierarchy(conn) ==
    hierarchy_below(conn.work.folders,
                    sort_folders(conn.work.folders,
                                 RowidOrder({f \in DOMAIN conn.work.folders :
                                                conn.work.folders[f].parent_id = NULL})))

----------------------------------------------------------------------------
(* app/services/firefox_service.py: the document *)

\* the values of the 'type' key; NoType stands for a node without the key,
\* for which node.get('type') is None
PLACE_CONTAINER == "text/x-moz-place-container"
PLACE == "text/x-moz-place"
NoType == ""

\* the value under an optional key: the key is missing, holds null or holds a
\* text
Missing == [k |-> "missing", v |-> <<>>]
JsonNull == [k |-> "null", v |-> <<>>]
Val(text) == [k |-> "value", v |-> text]

\* 'toolbar_____' and 'root________'
TOOLBAR_GUID == <<116, 111, 111, 108, 98, 97, 114, 95, 95, 95, 95, 95>>
ROOT_GUID == <<114, 111, 111, 116, 95, 95, 95, 95, 95, 95, 95, 95>>

\* 'Bookmarks Toolbar'
TOOLBAR_TITLE ==
    <<66, 111, 111, 107, 109, 97, 114, 107, 115, 32, 84, 111, 111, 108, 98, 97, 114>>

\* 'bookmarkProperties/description'
DESCRIPTION_ANNO == "bookmarkProperties/description"

\* a node of the document; guid and tags hold '' (what node.get falls back
\* to) and uri no text when the key is missing, children and annos no items
Node(type, guid, title, uri, annos, tags, children) ==
    [type |-> type, guid |-> guid, title |-> title, uri |-> uri,
     annos |-> annos, tags |-> tags, children |-> children]

----------------------------------------------------------------------------
(* export_to_firefox_json *)

\* SELECT * FROM folders ORDER BY name: folders of equal name stay in rowid
\* order
RECURSIVE insert_by_name(_, _, _), folders_by_name(_, _)
insert_by_name(folders, id, sorted) ==
    IF sorted = <<>> THEN <<id>>
    ELSE IF TextLess(folders[id].name, folders[Head(sorted)].name)
    THEN <<id>> \o sorted
    ELSE <<Head(sorted)>> \o insert_by_name(folders, id, Tail(sorted))

folders_by_name(folders, ids) ==
    IF ids = <<>> THEN <<>>
    ELSE insert_by_name(folders, ids[Len(ids)],
                        folders_by_name(folders, SubSeq(ids, 1, Len(ids) - 1)))

\* the bookmarks query: GROUP BY b.id ORDER BY b.created_at DESC
RECURSIVE insert_by_created_desc(_, _, _), bookmarks_by_created_desc(_, _)
insert_by_created_desc(bookmarks, id, sorted) ==
    IF sorted = <<>> THEN <<id>>
    ELSE IF bookmarks[id].created_at > bookmarks[Head(sorted)].created_at
    THEN <<id>> \o sorted
    ELSE <<Head(sorted)>> \o insert_by_created_desc(bookmarks, id, Tail(sorted))

bookmarks_by_created_desc(bookmarks, ids) ==
    IF ids = <<>> THEN <<>>
    ELSE insert_by_created_desc(bookmarks, ids[Len(ids)],
             bookmarks_by_created_desc(bookmarks, SubSeq(ids, 1, Len(ids) - 1)))

\* the loop over the folders: folder_map and, for every node, the children
\* appended to it so far
NoChildren == [root_children |-> <<>>, children |-> <<>>]

RECURSIVE place_folders(_, _, _, _)
place_folders(folders, sorted, i, acc) ==
    IF i > Len(sorted) THEN acc
    ELSE LET id == sorted[i]
             parent_id == folders[id].parent_id
             mapped == [acc EXCEPT !.children = Put(@, id, <<>>)]
             entry == [kind |-> "folder", id |-> id]
         IN place_folders(folders, sorted, i + 1,
                IF parent_id # NULL
                THEN IF parent_id \in DOMAIN mapped.children
                     THEN [mapped EXCEPT !.children[parent_id] = Append(@, entry)]
                     ELSE mapped
                ELSE [mapped EXCEPT !.root_children = Append(@, entry)])

\* the loop over the bookmarks: each is appended to the node of its folder
\* or to unorganized_bookmarks
RECURSIVE place_bookmarks(_, _, _, _)
place_bookmarks(bookmarks, sorted, i, acc) ==
    IF i > Len(sorted) THEN acc
    ELSE LET id == sorted[i]
             folder_id == bookmarks[id].folder_id
             entry == [kind |-> "bookmark", id |-> id]
         IN place_bookmarks(bookmarks, sorted, i + 1,
                IF folder_id # NULL /\ folder_id \in DOMAIN acc.children
                THEN [acc EXCEPT !.children[folder_id] = Append(@, entry)]
                ELSE [acc EXCEPT !.unorganized_bookmarks = Append(@, entry)])

\* bookmark_node: annos only with a description, tags only with tag names
bookmark_node(store, id) ==
    LET bm == store.bookmarks[id]
        ts == RowidOrder(TagsOf(store, id) \cap DOMAIN store.tags)
        tag_names == GROUP_CONCAT([i \in 1..Len(ts) |-> store.tags[ts[i]].name])
    IN Node(PLACE, IdText(id), Val(bm.title), bm.url,
            IF bm.description # <<>>
            THEN <<[name |-> DESCRIPTION_ANNO, value |-> bm.description]>> ELSE <<>>,
            tag_names, <<>>)

\* folder_node with the children appended to it by the end of the two loops
RECURSIVE folder_node(_, _, _)
folder_node(store, acc, id) ==
    Node(PLACE_CONTAINER, IdText(id), Val(store.folders[id].name), <<>>, <<>>, <<>>,
         [i \in 1..Len(acc.children[id]) |->
             IF acc.children[id][i].kind = "folder"
             THEN folder_node(store, acc, acc.children[id][i].id)
             ELSE bookmark_node(store, acc.children[id][i].id)])

export_to_firefox_json(conn) ==
    LET store == conn.work
        folders == folders_by_name(store.folders, RowidOrder(DOMAIN store.folders))
        bookmarks == bookmarks_by_created_desc(store.bookmarks,
                                               RowidOrder(DOMAIN store.bookmarks))
        placed == place_folders(store.folders, folders, 1, NoChildren)
        acc == place_bookmarks(store.bookmarks, bookmarks, 1,
                   [root_children |-> placed.root_children,
                    children |-> placed.children,
                    unorganized_bookmarks |-> <<>>])
        top == acc.root_children \o acc.unorganized_bookmarks
        toolbar == Node(PLACE_CONTAINER, TOOLBAR_GUID,
                        Val(TOOLBAR_TITLE), <<>>, <<>>, <<>>,
                        [i \in 1..Len(top) |->
                            IF top[i].kind = "folder"
                            THEN folder_node(store, acc, top[i].id)
                            ELSE bookmark_node(store, top[i].id)])
    IN Node(PLACE_CONTAINER, ROOT_GUID, Val(<<>>), <<>>, <<>>, <<>>, <<toolbar>>)

----------------------------------------------------------------------------
(* import_from_firefox_json *)

\* the guids of the containers that are not imported as folders:
\* root________, menu________, unfiled_____, mobile______, toolbar_____
PassThroughGuids ==
    {ROOT_GUID,
     <<109, 101, 110, 117, 95, 95, 95, 95, 95, 95, 95, 95>>,
     <<117, 110, 102, 105, 108, 101, 100, 95, 95, 95, 95, 95>>,
     <<109, 111, 98, 105, 108, 101, 95, 95, 95, 95, 95, 95>>,
     TOOLBAR_GUID}

\* 'Untitled Folder', the title of a container without the 'title' key
UNTITLED_FOLDER ==
    <<85, 110, 116, 105, 116, 108, 101, 100, 32, 70, 111, 108, 100, 101, 114>>

\* the characters str.strip() removes
Whitespace == {9, 10, 11, 12, 13, 28, 29, 30, 31, 32}

RECURSIVE strip(_)
strip(text) ==
    IF text = <<>> THEN text
    ELSE IF Head(text) \in Whitespace THEN strip(Tail(text))
    ELSE IF text[Len(text)] \in Whitespace THEN strip(SubSeq(text, 1, Len(text) - 1))
    ELSE text

\* the state of one import: the connection, the ids handed out, stats,
\* folder_mapping, the exception on its way up, and for every row created
\* the position of its node in the document (the child indexes from the
\* root)
ImportStart(conn, ids) ==
    [conn |-> conn, nextId |-> ids,
     stats |-> [bookmarks |-> 0, folders |-> 0, tags |-> 0],
     folder_mapping |-> <<>>, raised |-> "none", created |-> <<>>]

\* the loop over tag_names: each name is stripped, looked up and, when no tag
\* has it, created; tag_ids collects the ids
RECURSIVE import_tags(_, _, _, _, _)
import_tags(st, tag_names, i, tag_ids, now) ==
    IF i > Len(tag_names) \/ st.raised # "none" THEN [st |-> st, tag_ids |-> tag_ids]
    ELSE LET tag_name == strip(tag_names[i])
             found == {t \in DOMAIN st.conn.work.tags :
                          st.conn.work.tags[t].name = tag_name}
         IN IF tag_name = <<>> THEN import_tags(st, tag_names, i + 1, tag_ids, now)
            ELSE IF found # {}
            THEN import_tags(st, tag_names, i + 1,
                             Append(tag_ids, CHOOSE t \in found : TRUE), now)
            ELSE LET r == create_tag(st.conn, st.nextId.tag, tag_name, now)
                 IN import_tags([st EXCEPT !.conn = r.conn, !.raised = r.raised,
                                           !.nextId.tag = @ + 1,
                                           !.stats.tags = @ + 1],
                                tag_names, i + 1, Append(tag_ids, st.nextId.tag), now)

\* the value of the first annotation named bookmarkProperties/description
RECURSIVE description_of(_)
description_of(annos) ==
    IF annos = <<>> THEN <<>>
    ELSE IF Head(annos).name = DESCRIPTION_ANNO THEN Head(annos).value
    ELSE description_of(Tail(annos))

\* the text/x-moz-place branch; a null title reaches the NOT NULL column
import_bookmark(st, node, parent_id, path, now) ==
    LET url == node.uri
        tagged == import_tags(st, IF node.tags # <<>> THEN split(node.tags) ELSE <<>>,
                              1, <<>>, now)
        title == IF node.title.k = "missing" THEN url ELSE node.title.v
        id == tagged.st.nextId.bookmark
        r == IF node.title.k = "null"
             THEN [conn |-> tagged.st.conn, raised |-> "IntegrityError"]
             ELSE create_bookmark(tagged.st.conn, id, url, title,
                                  description_of(node.annos), parent_id,
                                  tagged.tag_ids, NULL, now)
    IN IF url = <<>> THEN st
       ELSE IF tagged.st.raised # "none" THEN tagged.st
       ELSE IF r.raised # "none"
       THEN [tagged.st EXCEPT !.conn = r.conn, !.raised = r.raised]
       ELSE [tagged.st EXCEPT !.conn = r.conn, !.nextId.bookmark = @ + 1,
                              !.stats.bookmarks = @ + 1,
                              !.created = Append(@, [path |-> path,
                                                     table |-> "bookmarks", id |-> id])]

RECURSIVE process_container(_, _, _, _, _), process_children(_, _, _, _, _, _)
process_container_pass_through_at_root(st, node, parent_id, path, now) ==
    IF st.raised # "none" THEN st
    ELSE IF node.type = PLACE_CONTAINER
    THEN IF node.guid \in PassThroughGuids
         THEN process_children(st, node.children, 1, NULL, path, now)
         ELSE LET folder_title == IF node.title.k = "missing" THEN UNTITLED_FOLDER
                                  ELSE node.title.v
                  folder_id == st.nextId.folder
                  r == create_folder(st.conn, folder_id, folder_title, parent_id, now)
              IN IF folder_title = <<>> THEN st
                 ELSE IF r.raised # "none"
                 THEN [st EXCEPT !.conn = r.conn, !.raised = r.raised]
                 ELSE process_children(
                          [st EXCEPT !.conn = r.conn, !.nextId.folder = @ + 1,
                                     !.folder_mapping = Put(@, node.guid, folder_id),
                                     !.stats.folders = @ + 1,
                                     !.created = Append(@, [path |-> path,
                                                            table |-> "folders",
                                                            id |-> folder_id])],
                          node.children, 1, folder_id, path, now)
    ELSE IF node.type = PLACE THEN import_bookmark(st, node, parent_id, path, now)
    ELSE st

process_container_skips_missing_title(st, node, parent_id, path, now) ==
    IF st.raised # "none" THEN st
    ELSE IF node.type = PLACE_CONTAINER
    THEN IF node.guid \in PassThroughGuids
         THEN process_children(st, node.children, 1, parent_id, path, now)
         ELSE LET folder_title == node.title.v
                  folder_id == st.nextId.folder
                  r == create_folder(st.conn, folder_id, folder_title, parent_id, now)
              IN IF folder_title = <<>> THEN st
                 ELSE IF r.raised # "none"
                 THEN [st EXCEPT !.conn = r.conn, !.raised = r.raised]
                 ELSE process_children(
                          [st EXCEPT !.conn = r.conn, !.nextId.folder = @ + 1,
                                     !.folder_mapping = Put(@, node.guid, folder_id),
                                     !.stats.folders = @ + 1,
                                     !.created = Append(@, [path |-> path,
                                                            table |-> "folders",
                                                            id |-> folder_id])],
                          node.children, 1, folder_id, path, now)
    ELSE IF node.type = PLACE THEN import_bookmark(st, node, parent_id, path, now)
    ELSE st

process_container(st, node, parent_id, path, now) ==
    IF st.raised # "none" THEN st
    ELSE IF node.type = PLACE_CONTAINER
    THEN IF node.guid \in PassThroughGuids
         THEN process_children(st, node.children, 1, parent_id, path, now)
         ELSE LET folder_title == IF node.title.k = "missing" THEN UNTITLED_FOLDER
                                  ELSE node.title.v
                  folder_id == st.nextId.folder
                  r == create_folder(st.conn, folder_id, folder_title, parent_id, now)
              IN IF folder_title = <<>> THEN st
                 ELSE IF r.raised # "none"
                 THEN [st EXCEPT !.conn = r.conn, !.raised = r.raised]
                 ELSE process_children(
                          [st EXCEPT !.conn = r.conn, !.nextId.folder = @ + 1,
                                     !.folder_mapping = Put(@, node.guid, folder_id),
                                     !.stats.folders = @ + 1,
                                     !.created = Append(@, [path |-> path,
                                                            table |-> "folders",
                                                            id |-> folder_id])],
                          node.children, 1, folder_id, path, now)
    ELSE IF node.type = PLACE THEN import_bookmark(st, node, parent_id, path, now)
    ELSE st

process_children(st, children, i, parent_id, path, now) ==
    IF i > Len(children) THEN st
    ELSE process_children(process_container(st, children[i], parent_id,
                                            Append(path, i), now),
                          children, i + 1, parent_id, path, now)

\* import_from_firefox_json of a parsed document (a dict)
import_from_firefox_json(conn, ids, json_data, now) ==
    process_container(ImportStart(conn, ids), json_data, NULL, <<>>, now)

----------------------------------------------------------------------------
(* parse_firefox_json *)

\* the file content as its lexemes: the six structural characters, a string
\* literal "s", the literal NaN and a bare word x
Lexemes == {"{", "}", "[", "]", ":", ",", "s", "NaN", "x"}

\* the result of a scan: the value and the index after it, or the
\* diagnostic of the JSONDecodeError
Scanned(value, end) == [ok |-> TRUE, value |-> value, end |-> end, msg |-> ""]
JSONDecodeError(msg) == [ok |-> FALSE, value |-> "", end |-> 0, msg |-> msg]

\* json.loads, the decoder of the standard library: a value is a string, a
\* constant (NaN is accepted), an array or an object with string keys
RECURSIVE scan_once(_, _), JSONArray(_, _), JSONObject(_, _)
scan_once(s, idx) ==
    IF idx > Len(s) THEN JSONDecodeError("Expecting value")
    ELSE IF s[idx] = "s" THEN Scanned("str", idx + 1)
    ELSE IF s[idx] = "NaN" THEN Scanned("float", idx + 1)
    ELSE IF s[idx] = "[" THEN
         IF idx + 1 <= Len(s) /\ s[idx + 1] = "]" THEN Scanned("list", idx + 2)
         ELSE JSONArray(s, idx + 1)
    ELSE IF s[idx] = "{" THEN
         IF idx + 1 <= Len(s) /\ s[idx + 1] = "}" THEN Scanned("dict", idx + 2)
         ELSE JSONObject(s, idx + 1)
    ELSE JSONDecodeError("Expecting value")

\* the items of an array from idx on
JSONArray(s, idx) ==
    LET v == scan_once(s, idx)
    IN IF ~v.ok THEN v
       ELSE IF v.end <= Len(s) /\ s[v.end] = "]" THEN Scanned("list", v.end + 1)
       ELSE IF v.end <= Len(s) /\ s[v.end] = "," THEN JSONArray(s, v.end + 1)
       ELSE JSONDecodeError("Expecting ',' delimiter")

\* the pairs of an object from idx on
JSONObject(s, idx) ==
    IF idx > Len(s) \/ s[idx] # "s"
    THEN JSONDecodeError("Expecting property name enclosed in double quotes")
    ELSE IF idx + 1 > Len(s) \/ s[idx + 1] # ":"
    THEN JSONDecodeError("Expecting ':' delimiter")
    ELSE LET v == scan_once(s, idx + 2)
         IN IF ~v.ok THEN v
            ELSE IF v.end <= Len(s) /\ s[v.end] = "}" THEN Scanned("dict", v.end + 1)
            ELSE IF v.end <= Len(s) /\ s[v.end] = "," THEN JSONObject(s, v.end + 1)
            ELSE JSONDecodeError("Expecting ',' delimiter")

\* json.loads: one value and nothing after it
loads(s) ==
    LET v == scan_once(s, 1)
    IN IF v.ok /\ v.end # Len(s) + 1 THEN JSONDecodeError("Extra data") ELSE v

\* parse_firefox_json: the value, or ValueError with 'Invalid JSON format: '
\* and the diagnostic
parse_firefox_json(file_content) ==
    LET v == loads(file_content)
    IN IF v.ok THEN [raised |-> "none", data |-> v.value, message |-> <<>>]
       ELSE [raised |-> "ValueError", data |-> "",
             message |-> <<"Invalid JSON format: ", v.msg>>]

----------------------------------------------------------------------------
(* state *)

NoArgs ==
    [id |-> NULL, name |-> <<>>, parent_id |-> NULL, tag_ids |-> <<>>,
     url |-> <<>>, title |-> <<>>, description |-> <<>>, folder_id |-> NULL,
     favicon |-> NULL, tag_id |-> NULL, search |-> <<>>, sort_by |-> "",
     sort_order |-> "", include_subfolders |-> TRUE, page |-> 1, per_page |-> 1,
     json_data |-> <<>>, file_content |-> <<>>]

\* the last call: its arguments, the exception it raised and what it returned
NoOp == [op |-> "init", args |-> NoArgs, raised |-> "none", value |-> <<>>,
         before |-> <<>>, total |-> 0, total_pages |-> 0, rows |-> <<>>,
         document |-> <<>>, created |-> <<>>, requests |-> <<>>,
         stats |-> [bookmarks |-> 0, folders |-> 0, tags |-> 0]]

Init ==
    /\ db = EmptyStore
    /\ nextId = [folder |-> 1, bookmark |-> 1, tag |-> 1]
    /\ clock = 1
    /\ last = NoOp

\* ids handed out so far (stored or deleted since)
FolderIds == 1..(nextId.folder - 1)
BookmarkIds == 1..(nextId.bookmark - 1)
TagIds == 1..(nextId.tag - 1)

----------------------------------------------------------------------------
(* requests on folders: one service call on a fresh connection, closed at
   the end of the request *)

CreateFolder(name, parent_id) ==
    /\ nextId.folder <= MaxFolders
    /\ LET r == create_folder(get_db(db), nextId.folder, name, parent_id, clock)
       IN /\ db' = close_db(r.conn)
          /\ last' = [NoOp EXCEPT !.op = "create_folder", !.raised = r.raised,
                                  !.args.id = nextId.folder, !.args.name = name,
                                  !.args.parent_id = parent_id]
    /\ nextId' = [nextId EXCEPT !.folder = @ + 1]
    /\ UNCHANGED clock

UpdateFolder(folder_id, name, parent_id) ==
    /\ LET r == update_folder(get_db(db), folder_id, name, parent_id, clock)
       IN /\ db' = close_db(r.conn)
          /\ last' = [NoOp EXCEPT !.op = "update_folder", !.raised = r.raised,
                                  !.args.id = folder_id, !.args.name = name,
                                  !.args.parent_id = parent_id]
    /\ UNCHANGED <<nextId, clock>>

DeleteFolder(folder_id) ==
    /\ LET r == delete_folder(get_db(db), folder_id)
       IN /\ db' = close_db(r.conn)
          /\ last' = [NoOp EXCEPT !.op = "delete_folder", !.raised = r.raised,
                                  !.args.id = folder_id]
    /\ UNCHANGED <<nextId, clock>>

GetFolderWithDescendants(folder_id) ==
    /\ last' = [NoOp EXCEPT !.op = "get_folder_with_descendants",
                            !.args.id = folder_id,
                            !.value = get_folder_with_descendants(get_db(db), folder_id)]
    /\ UNCHANGED <<db, nextId, clock>>

NextFolder ==
    \/ \E name \in FolderNames, parent_id \in {NULL} \cup FolderIds :
          CreateFolder(name, parent_id)
    \/ \E folder_id \in FolderIds, name \in FolderNames, parent_id \in {NULL} \cup FolderIds :
          UpdateFolder(folder_id, name, parent_id)
    \/ \E folder_id \in FolderIds : DeleteFolder(folder_id)
    \/ \E folder_id \in FolderIds : GetFolderWithDescendants(folder_id)

SpecFolder == Init /\ [][NextFolder]_vars

----------------------------------------------------------------------------
(* requests on tags and bookmarks *)

\* the lists of at most n elements of S
Lists(S, n) == UNION {[1..k -> S] : k \in 0..n}

CreateTag(name) ==
    /\ nextId.tag <= MaxTags
    /\ LET r == create_tag(get_db(db), nextId.tag, name, clock)
       IN /\ db' = close_db(r.conn)
          /\ last' = [NoOp EXCEPT !.op = "create_tag", !.raised = r.raised,
                                  !.args.id = nextId.tag, !.args.name = name]
    /\ nextId' = [nextId EXCEPT !.tag = @ + 1]
    /\ UNCHANGED clock

DeleteTag(tag_id) ==
    /\ LET r == delete_tag(get_db(db), tag_id)
       IN /\ db' = close_db(r.conn)
          /\ last' = [NoOp EXCEPT !.op = "delete_tag", !.raised = r.raised,
                                  !.args.id = tag_id]
    /\ UNCHANGED <<nextId, clock>>

CreateBookmark(url, title, description, folder_id, tag_ids, favicon) ==
    /\ nextId.bookmark <= MaxBookmarks
    /\ LET r == create_bookmark(get_db(db), nextId.bookmark, url, title, description,
                                folder_id, tag_ids, favicon, clock)
       IN /\ db' = close_db(r.conn)
          /\ last' = [NoOp EXCEPT !.op = "create_bookmark", !.raised = r.raised,
                                  !.args.id = nextId.bookmark, !.args.title = title,
                                  !.args.url = url, !.args.description = description,
                                  !.args.folder_id = folder_id,
                                  !.args.tag_ids = tag_ids, !.args.favicon = favicon,
                                  !.value = RowidOrder(TagsOf(r.conn.work, nextId.bookmark))]
    /\ nextId' = [nextId EXCEPT !.bookmark = @ + 1]
    /\ UNCHANGED clock

\* value: the bookmark's tags as the connection sees them when the call
\* returns or raises; before: its stored tags when the request began
UpdateBookmark(bookmark_id, url, title, description, folder_id, tag_ids, favicon) ==
    /\ LET r == update_bookmark(get_db(db), bookmark_id, url, title, description,
                                folder_id, tag_ids, favicon, clock)
       IN /\ db' = close_db(r.conn)
          /\ last' = [NoOp EXCEPT !.op = "update_bookmark", !.raised = r.raised,
                                  !.args.id = bookmark_id, !.args.title = title,
                                  !.args.url = url, !.args.description = description,
                                  !.args.folder_id = folder_id,
                                  !.args.tag_ids = tag_ids, !.args.favicon = favicon,
                                  !.value = RowidOrder(TagsOf(r.conn.work, bookmark_id)),
                                  !.before = RowidOrder(TagsOf(db, bookmark_id))]
    /\ UNCHANGED <<nextId, clock>>

DeleteBookmark(bookmark_id) ==
    /\ LET r == delete_bookmark(get_db(db), bookmark_id)
       IN /\ db' = close_db(r.conn)
          /\ last' = [NoOp EXCEPT !.op = "delete_bookmark", !.raised = r.raised,
                                  !.args.id = bookmark_id]
    /\ UNCHANGED <<nextId, clock>>

\* folders with the bookmarks filed in them
NextFiling ==
    \/ \E name \in FolderNames, parent_id \in {NULL} \cup DOMAIN db.folders :
          nextId.folder <= MaxFiledFolders /\ CreateFolder(name, parent_id)
    \/ \E folder_id \in FolderIds : DeleteFolder(folder_id)
    \/ \E url \in {<<117>>}, title \in {<<65, 98>>}, folder_id \in {NULL} \cup DOMAIN db.folders :
          /\ nextId.bookmark <= MaxFiledBookmarks
          /\ CreateBookmark(url, title, <<>>, folder_id, <<>>, NULL)
    \/ \E bookmark_id \in DOMAIN db.bookmarks, url \in {<<117>>}, title \in {<<65, 98>>},
          folder_id \in {NULL} \cup DOMAIN db.folders :
          UpdateBookmark(bookmark_id, url, title, <<>>, folder_id, <<>>, NULL)
    \/ \E bookmark_id \in BookmarkIds : DeleteBookmark(bookmark_id)

SpecFiling == Init /\ [][NextFiling]_vars

\* tags and the bookmarks carrying them
NextTagging ==
    \/ \E name \in TagNames : CreateTag(name)
    \/ \E tag_id \in DOMAIN db.tags : DeleteTag(tag_id)
    \/ \E url \in {<<117>>}, title \in {<<65, 98>>}, tag_ids \in Lists(DOMAIN db.tags, MaxTagList) :
          /\ nextId.bookmark <= MaxTaggedBookmarks
          /\ CreateBookmark(url, title, <<>>, NULL, tag_ids, NULL)
    \/ \E bookmark_id \in DOMAIN db.bookmarks, url \in {<<117>>}, title \in {<<97>>},
          tag_ids \in Lists(DOMAIN db.tags, MaxTagList) :
          UpdateBookmark(bookmark_id, url, title, <<>>, NULL, tag_ids, NULL)
    \/ \E bookmark_id \in BookmarkIds : DeleteBookmark(bookmark_id)

SpecTagging == Init /\ [][NextTagging]_vars

----------------------------------------------------------------------------
(* listing requests: get_all_bookmarks reads the store and changes nothing,
   so it is applied once to each store and each choice of query parameters *)

\* the store after create_bookmark for each item of a list, in order, and
\* toggle_pin for the pinned ones, each request on its own connection
RECURSIVE StoreOf(_, _)
StoreOf(base, items) ==
    IF items = <<>> THEN base
    ELSE LET id == Len(items)
             it == items[id]
             created == close_db(create_bookmark(
                            get_db(StoreOf(base, SubSeq(items, 1, id - 1))),
                            id, it.url, it.title, it.description, it.folder_id,
                            RowidOrder(it.tags), NULL, it.at).conn)
         IN IF it.pinned = 1
            THEN close_db(toggle_pin(get_db(created), id, it.at).conn)
            ELSE created

\* folders "W" and, inside it, "P"; tags "py" and "web"
FolderAndTagStore ==
    LET f1 == close_db(create_folder(get_db(EmptyStore), 1, <<87>>, NULL, 1).conn)
        f2 == close_db(create_folder(get_db(f1), 2, <<80>>, 1, 1).conn)
        t1 == close_db(create_tag(get_db(f2), 1, <<112, 121>>, 1).conn)
    IN close_db(create_tag(get_db(t1), 2, <<119, 101, 98>>, 1).conn)

\* bookmarks to filter: unfiled or in a folder, with none, one or both tags
FilterItems ==
    [url : {<<117>>}, title : Titles, description : {<<>>},
     folder_id : {NULL, 1, 2}, tags : {{}, {1}, {1, 2}}, pinned : {0}, at : {1}]

\* bookmarks to sort: the title order is the reverse of the URL order
SortItems ==
    {[url |-> p[1], title |-> p[2], description |-> <<>>, folder_id |-> NULL,
      tags |-> {}, pinned |-> pinned, at |-> at] :
        p \in {<<<<118>>, <<65, 98>>>>, <<<<117>>, <<97>>>>},
        pinned \in {0, 1}, at \in 1..MaxClock}

\* a listing request that has arrived with its query parameters
ListingRequest(folder_id, tag_id, search, sort_by, sort_order, include_subfolders, page, per_page) ==
    [NoOp EXCEPT !.op = "request",
                 !.args.folder_id = folder_id, !.args.tag_id = tag_id,
                 !.args.search = search, !.args.sort_by = sort_by,
                 !.args.sort_order = sort_order,
                 !.args.include_subfolders = include_subfolders,
                 !.args.page = page, !.args.per_page = per_page]

GetAllBookmarks ==
    /\ last.op = "request"
    /\ LET a == last.args
           r == get_all_bookmarks(get_db(db), a.folder_id, a.tag_id, a.search,
                                  a.sort_by, a.sort_order, a.include_subfolders,
                                  a.page, a.per_page)
       IN last' = [last EXCEPT !.op = "get_all_bookmarks", !.value = r.bookmarks,
                               !.total = r.total, !.total_pages = r.total_pages,
                               !.rows = r.rows]
    /\ UNCHANGED <<db, nextId, clock>>

\* every filter on every store of at most MaxFiledBookmarks bookmarks
InitFiltering ==
    /\ \E items \in Lists(FilterItems, MaxFiledBookmarks) :
          /\ db = StoreOf(FolderAndTagStore, items)
          /\ nextId = [folder |-> 3, bookmark |-> Len(items) + 1, tag |-> 3]
    /\ clock = 1
    /\ \E folder_id \in {NULL, UNFILED, 1, 2}, tag_id \in {NULL, 1, 2},
          search \in {<<>>, <<97>>, <<66>>}, include_subfolders \in BOOLEAN :
          last = ListingRequest(folder_id, tag_id, search, "created_at", "desc",
                                include_subfolders, 1, PerPage)

SpecFiltering == InitFiltering /\ [][GetAllBookmarks]_vars

\* every sort field and direction on every store of at most MaxBookmarks
\* bookmarks
InitSorting ==
    /\ \E items \in Lists(SortItems, MaxBookmarks) :
          /\ db = StoreOf(EmptyStore, items)
          /\ nextId = [folder |-> 1, bookmark |-> Len(items) + 1, tag |-> 1]
    /\ clock = MaxClock
    /\ \E sort_by \in SortFields, sort_order \in SortOrders :
          last = ListingRequest(NULL, NULL, <<>>, sort_by, sort_order, TRUE, 1, PerPage)

SpecSorting == InitSorting /\ [][GetAllBookmarks]_vars

\* bookmarks to page through: some share the pinned flag and the sort key
PageItems ==
    [url : {<<117>>}, title : Titles, description : {<<>>}, folder_id : {NULL},
     tags : {{}}, pinned : {0, 1}, at : {1}]

\* every page of every page size on every store of at most MaxPagedBookmarks
\* bookmarks
InitPaging ==
    /\ \E items \in Lists(PageItems, MaxPagedBookmarks) :
          /\ db = StoreOf(EmptyStore, items)
          /\ nextId = [folder |-> 1, bookmark |-> Len(items) + 1, tag |-> 1]
    /\ clock = 1
    /\ \E sort_by \in {"title", "created_at"}, sort_order \in SortOrders,
          page \in 1..MaxPage, per_page \in 1..MaxPerPage :
          last = ListingRequest(NULL, NULL, <<>>, sort_by, sort_order, TRUE, page, per_page)

SpecPaging == InitPaging /\ [][GetAllBookmarks]_vars

\* bookmarks to search: titles "Ab" and "a", URL "u", no description or "B",
\* with or without the first tag
SearchItems ==
    [url : {<<117>>}, title : Titles, description : {<<>>, <<66>>},
     folder_id : {NULL}, tags : {{}, {1}}, pinned : {0}, at : {1}]

\* search texts "a", "B", "AB", "_" and "%"
SearchTexts == {<<97>>, <<66>>, <<65, 66>>, <<95>>, <<37>>}

\* every search text, with and without a tag filter, on every store of at
\* most MaxSearchedBookmarks bookmarks
InitSearching ==
    /\ \E items \in Lists(SearchItems, MaxSearchedBookmarks) :
          /\ db = StoreOf(FolderAndTagStore, items)
          /\ nextId = [folder |-> 3, bookmark |-> Len(items) + 1, tag |-> 3]
    /\ clock = 1
    /\ \E tag_id \in {NULL, 1}, search \in SearchTexts :
          last = ListingRequest(NULL, tag_id, search, "created_at", "desc",
                                TRUE, 1, PerPage)

SpecSearching == InitSearching /\ [][GetAllBookmarks]_vars

\* tag names "x", "y" and "a,b"
AnnotatedTagNames == {<<120>>, <<121>>, <<97, 44, 98>>}

\* folder "W" and two tags with the given names
NamedTagStore(name1, name2) ==
    LET f1 == close_db(create_folder(get_db(EmptyStore), 1, <<87>>, NULL, 1).conn)
        t1 == close_db(create_tag(get_db(f1), 1, name1, 1).conn)
    IN close_db(create_tag(get_db(t1), 2, name2, 1).conn)

\* bookmarks to annotate: unfiled or in the folder, with any of the two tags
AnnotatedItems ==
    [url : {<<117>>}, title : {<<97>>}, description : {<<>>},
     folder_id : {NULL, 1}, tags : SUBSET {1, 2}, pinned : {0}, at : {1}]

\* the listing, unfiltered or filtered by the first tag, of every store of at
\* most MaxAnnotatedBookmarks bookmarks with two tags of different names
InitAnnotating ==
    /\ \E items \in Lists(AnnotatedItems, MaxAnnotatedBookmarks) :
       \E name1 \in AnnotatedTagNames : \E name2 \in AnnotatedTagNames \ {name1} :
          /\ db = StoreOf(NamedTagStore(name1, name2), items)
          /\ nextId = [folder |-> 2, bookmark |-> Len(items) + 1, tag |-> 3]
    /\ clock = 1
    /\ \E tag_id \in {NULL, 1} :
          last = ListingRequest(NULL, tag_id, <<>>, "created_at", "desc", TRUE, 1, PerPage)

SpecAnnotating == InitAnnotating /\ [][GetAllBookmarks]_vars

----------------------------------------------------------------------------
(* export and import requests *)

\* GET /export/firefox: the document of the store (json.dumps keeps the
\* texts, lists and keys of the document as they are)
ExportFirefox ==
    /\ last.op = "export_request"
    /\ last' = [last EXCEPT !.op = "export_to_firefox_json",
                            !.document = <<export_to_firefox_json(get_db(db))>>]
    /\ UNCHANGED <<db, nextId, clock>>

\* the store after create_folder for each item of a list, in order
RECURSIVE FolderStoreOf(_)
FolderStoreOf(items) ==
    IF items = <<>> THEN EmptyStore
    ELSE LET id == Len(items)
         IN close_db(create_folder(get_db(FolderStoreOf(SubSeq(items, 1, id - 1))),
                                   id, items[id].name, items[id].parent_id, 1).conn)

\* folders to export: each at the root or inside a folder created before it
ExportedFolderItems == [name : FolderNames, parent_id : 0..(MaxExportedFolders - 1)]

\* bookmarks to export: plain, or with the description "d" and the tag "py"
ExportedItems ==
    {[url |-> <<117>>, title |-> <<97>>, description |-> p[1],
      folder_id |-> folder_id, tags |-> p[2], pinned |-> 0, at |-> 1] :
        p \in {<<<<>>, {}>>, <<<<100>>, {1}>>}, folder_id \in 0..MaxExportedFolders}

\* the store after creating the folders, the tag "py" and the bookmarks, and
\* after delete_folder of one of the folders
ExportedStore(folders, items, deleted) ==
    LET tagged == close_db(create_tag(get_db(FolderStoreOf(folders)), 1,
                                      <<112, 121>>, 1).conn)
        filled == StoreOf(tagged, items)
    IN IF deleted = NULL THEN filled
       ELSE close_db(delete_folder(get_db(filled), deleted).conn)

\* the export of every store of at most MaxExportedFolders folders and
\* MaxExportedBookmarks bookmarks
InitExporting ==
    /\ \E folders \in Lists(ExportedFolderItems, MaxExportedFolders) :
       \E items \in Lists(ExportedItems, MaxExportedBookmarks) :
       \E deleted \in 0..Len(folders) :
          /\ \A i \in 1..Len(folders) : folders[i].parent_id < i
          /\ \A i \in 1..Len(items) : items[i].folder_id <= Len(folders)
          /\ db = ExportedStore(folders, items, deleted)
          /\ nextId = [folder |-> Len(folders) + 1, bookmark |-> Len(items) + 1,
                       tag |-> 2]
    /\ clock = 1
    /\ last = [NoOp EXCEPT !.op = "export_request"]

SpecExporting == InitExporting /\ [][ExportFirefox]_vars

\* POST /import/firefox: the parsed document is imported; an exception ends
\* the import and the request closes the connection
ImportFirefox ==
    /\ last.op = "import_request"
    /\ LET st == import_from_firefox_json(get_db(db), nextId,
                                          last.args.json_data[1], clock)
       IN /\ db' = close_db(st.conn)
          /\ nextId' = st.nextId
          /\ last' = [last EXCEPT !.op = "import_from_firefox_json",
                                  !.raised = st.raised, !.stats = st.stats,
                                  !.created = st.created]
    /\ UNCHANGED clock

\* a type that is neither a container nor a bookmark
PLACE_SEPARATOR == "text/x-moz-place-separator"

\* a bookmark "a" at "u"
LeafBookmark == Node(PLACE, <<>>, Val(<<97>>), <<117>>, <<>>, <<>>, <<>>)

\* the nodes with children: containers with guid "g" whose title is missing,
\* null, empty or "W", a container with the guid of the toolbar, a separator
\* and a node without type
InnerNodes(children) ==
    {Node(PLACE_CONTAINER, <<103>>, title, <<>>, <<>>, <<>>, children) :
        title \in {Missing, JsonNull, Val(<<>>), Val(<<87>>)}}
    \cup {Node(PLACE_CONTAINER, TOOLBAR_GUID, Val(TOOLBAR_TITLE), <<>>, <<>>, <<>>, children),
          Node(PLACE_SEPARATOR, <<>>, Missing, <<>>, <<>>, <<>>, children),
          Node(NoType, <<>>, Val(<<87>>), <<>>, <<>>, <<>>, children)}

\* the documents of three levels: a bookmark or the folder "P" at the bottom
BottomNodes ==
    {LeafBookmark, Node(PLACE_CONTAINER, <<104>>, Val(<<80>>), <<>>, <<>>, <<>>, <<>>)}

MiddleNodes ==
    {LeafBookmark} \cup
    UNION {InnerNodes(children) : children \in Lists(BottomNodes, MaxInnerChildren)}

\* the import into an empty store of every document of three levels with at
\* most MaxTopChildren nodes in the middle
InitImporting ==
    /\ db = EmptyStore
    /\ nextId = [folder |-> 1, bookmark |-> 1, tag |-> 1]
    /\ clock = 1
    /\ \E k \in 0..MaxTopChildren : \E children \in [1..k -> MiddleNodes] :
       \E json_data \in InnerNodes(children) :
          last = [NoOp EXCEPT !.op = "import_request",
                              !.args.json_data = <<json_data>>]

SpecImporting == InitImporting /\ [][ImportFirefox]_vars

\* the bookmark leaves: with the uri "u" or none, the title missing, null,
\* empty or "a", and as annotations none, a description "d", a description
\* after another annotation, or two descriptions
ImportedLeaves ==
    {Node(PLACE, <<>>, title, uri, annos, <<>>, <<>>) :
        title \in {Missing, JsonNull, Val(<<>>), Val(<<97>>)},
        uri \in {<<>>, <<117>>},
        annos \in {<<>>,
                   <<[name |-> DESCRIPTION_ANNO, value |-> <<100>>]>>,
                   <<[name |-> "other", value |-> <<111>>],
                     [name |-> DESCRIPTION_ANNO, value |-> <<100>>]>>,
                   <<[name |-> DESCRIPTION_ANNO, value |-> <<100>>],
                     [name |-> DESCRIPTION_ANNO, value |-> <<101>>]>>}}

\* the root container with leaves as children
LeafDocuments ==
    {Node(PLACE_CONTAINER, ROOT_GUID, Val(<<>>), <<>>, <<>>, <<>>, children) :
        children \in Lists(ImportedLeaves, MaxImportedLeaves)}

\* the import of every document of leaves into an empty store
InitLeafImporting ==
    /\ db = EmptyStore
    /\ nextId = [folder |-> 1, bookmark |-> 1, tag |-> 1]
    /\ clock = 1
    /\ \E json_data \in LeafDocuments :
          last = [NoOp EXCEPT !.op = "import_request",
                              !.args.json_data = <<json_data>>]

SpecLeafImporting == InitLeafImporting /\ [][ImportFirefox]_vars

\* the bookmark leaves "a" at "u" with the 'tags' text '', 'x', ' x', 'x,y',
\* 'x,x', 'x, x' or ',y'
TaggedLeaves ==
    {Node(PLACE, <<>>, Val(<<97>>), <<117>>, <<>>, tags, <<>>) :
        tags \in {<<>>, <<120>>, <<32, 120>>, <<120, 44, 121>>, <<120, 44, 120>>,
                  <<120, 44, 32, 120>>, <<44, 121>>}}

\* the root container with tagged leaves as children
TaggedDocuments ==
    {Node(PLACE_CONTAINER, ROOT_GUID, Val(<<>>), <<>>, <<>>, <<>>, children) :
        children \in Lists(TaggedLeaves, MaxTaggedLeaves)}

\* the import of every document of tagged leaves into the empty store or a
\* store holding the tag "x" or "y"; the request remembers the store it
\* started from
InitTagImporting ==
    /\ \/ db = EmptyStore /\ nextId = [folder |-> 1, bookmark |-> 1, tag |-> 1]
       \/ \E name \in {<<120>>, <<121>>} :
             /\ db = close_db(create_tag(get_db(EmptyStore), 1, name, 1).conn)
             /\ nextId = [folder |-> 1, bookmark |-> 1, tag |-> 2]
    /\ clock = 1
    /\ \E json_data \in TaggedDocuments :
          last = [NoOp EXCEPT !.op = "import_request", !.before = <<db>>,
                              !.args.json_data = <<json_data>>]

SpecTagImporting == InitTagImporting /\ [][ImportFirefox]_vars

\* POST /import/firefox with a file: the content is parsed and the parsed
\* document imported; an object of the lexemes has none of the keys the
\* import reads, and a value that is no object is not imported at all
ImportFirefoxFile ==
    /\ last.op = "import_file_request"
    /\ LET parsed == parse_firefox_json(last.args.file_content)
           st == IF parsed.raised = "none" /\ parsed.data = "dict"
                 THEN import_from_firefox_json(
                          get_db(db), nextId,
                          Node(NoType, <<>>, Missing, <<>>, <<>>, <<>>, <<>>), clock)
                 ELSE ImportStart(get_db(db), nextId)
       IN /\ db' = close_db(st.conn)
          /\ nextId' = st.nextId
          /\ last' = [last EXCEPT !.op = "import_firefox",
                                  !.raised = IF parsed.raised # "none" THEN parsed.raised
                                             ELSE st.raised,
                                  !.value = parsed.message, !.stats = st.stats]
    /\ UNCHANGED clock

\* the import of every file content of at most MaxContent lexemes into the
\* empty store or a store with a bookmark with both tags in the folder "W"
InitParsing ==
    /\ \/ db = EmptyStore /\ nextId = [folder |-> 1, bookmark |-> 1, tag |-> 1]
       \/ /\ db = StoreOf(FolderAndTagStore,
                         <<[url |-> <<117>>, title |-> <<97>>, description |-> <<>>,
                            folder_id |-> 1, tags |-> {1, 2}, pinned |-> 0,
                            at |-> 1]>>)
          /\ nextId = [folder |-> 3, bookmark |-> 2, tag |-> 3]
    /\ clock = 1
    /\ \E file_content \in Lists(Lexemes, MaxContent) :
          last = [NoOp EXCEPT !.op = "import_file_request", !.before = <<db>>,
                              !.args.file_content = file_content]

SpecParsing == InitParsing /\ [][ImportFirefoxFile]_vars

----------------------------------------------------------------------------
(* concurrent folder updates: the server handles each request on a thread
   of its own with a connection of its own; the SELECTs of the check and the
   UPDATE are separate statements, and only the UPDATE takes the write
   lock *)

\* POST /folder/save of an existing folder, first step: the descendant check
\* of update_folder
CheckFolderUpdate(r) ==
    /\ last.op = "update_requests"
    /\ last.requests[r].pc = "check"
    /\ last' = [last EXCEPT !.requests[r].pc =
                   IF IsCyclicMove(get_db(db), last.requests[r].folder_id,
                                   last.requests[r].parent_id)
                   THEN "ValueError" ELSE "write"]
    /\ UNCHANGED <<db, nextId, clock>>

\* second step: the UPDATE and the commit
WriteFolderUpdate(r) ==
    /\ last.op = "update_requests"
    /\ last.requests[r].pc = "write"
    /\ LET w == update_folder_write(get_db(db), last.requests[r].folder_id,
                                    last.requests[r].name, last.requests[r].parent_id,
                                    clock)
       IN /\ db' = close_db(w.conn)
          /\ last' = [last EXCEPT !.requests[r].pc = "done"]
    /\ UNCHANGED <<nextId, clock>>

\* every request has been answered
RequestsCompleted ==
    /\ last.op = "update_requests"
    /\ \A r \in 1..Len(last.requests) : last.requests[r].pc \in {"done", "ValueError"}

\* the reads of a later request; a call that never returns keeps the request
\* (and the state) where it is, one that raises is recorded as raised
GetFolder(folder_id) ==
    /\ RequestsCompleted
    /\ LET r == get_folder(get_db(db), folder_id)
       IN last' = [last EXCEPT !.op = IF r.ends THEN "get_folder"
                                      ELSE "get_folder never returns",
                               !.args.id = folder_id, !.value = r.value]
    /\ UNCHANGED <<db, nextId, clock>>

GetFolderDescendants(folder_id) ==
    /\ RequestsCompleted
    /\ last' = IF get_descendants_overflows(db.folders, folder_id, {})
               THEN [last EXCEPT !.op = "get_folder_with_descendants",
                                 !.args.id = folder_id, !.raised = "RecursionError"]
               ELSE [last EXCEPT !.op = "get_folder_with_descendants",
                                 !.args.id = folder_id,
                                 !.value = get_folder_with_descendants(get_db(db),
                                                                       folder_id)]
    /\ UNCHANGED <<db, nextId, clock>>

GetFolderHierarchy ==
    /\ RequestsCompleted
    /\ last' = [last EXCEPT !.op = "get_folder_hierarchy",
                            !.value = get_folder_hierarchy(get_db(db))]
    /\ UNCHANGED <<db, nextId, clock>>

\* two update requests in flight on a store of at most MaxRacedFolders
\* folders "W", each at the root or inside a folder created before it, one
\* of which may have been deleted
InitRacing ==
    /\ \E folders \in Lists([name : {<<87>>}, parent_id : 0..(MaxRacedFolders - 1)],
                            MaxRacedFolders) :
       \E deleted \in 0..Len(folders) :
          /\ \A i \in 1..Len(folders) : folders[i].parent_id < i
          /\ db = ExportedStore(folders, <<>>, deleted)
          /\ nextId = [folder |-> Len(folders) + 1, bookmark |-> 1, tag |-> 2]
          /\ \E requests \in [1..2 -> [folder_id : 1..Len(folders), name : {<<80>>},
                                       parent_id : 0..Len(folders), pc : {"check"}]] :
                last = [NoOp EXCEPT !.op = "update_requests", !.before = <<db>>,
                                    !.requests = requests]
    /\ clock = 1

NextRacing ==
    \/ \E r \in 1..2 : CheckFolderUpdate(r)
    \/ \E r \in 1..2 : WriteFolderUpdate(r)
    \/ \E folder_id \in 1..MaxRacedFolders : GetFolder(folder_id)
    \/ \E folder_id \in 1..MaxRacedFolders : GetFolderDescendants(folder_id)
    \/ GetFolderHierarchy

SpecRacing == InitRacing /\ [][NextRacing]_vars

----------------------------------------------------------------------------
(* POST /bookmark/<id>/toggle-pin *)

\* one call of toggle_pin per request, at most MaxToggles of them, each at a
\* later time; the request remembers the store it started from
TogglePin(bookmark_id) ==
    /\ clock <= MaxToggles
    /\ LET r == toggle_pin(get_db(db), bookmark_id, clock + 1)
       IN /\ db' = close_db(r.conn)
          /\ last' = [NoOp EXCEPT !.op = "toggle_pin", !.raised = r.raised,
                                  !.args.id = bookmark_id, !.value = r.value,
                                  !.before = <<db>>]
    /\ clock' = clock + 1
    /\ UNCHANGED nextId

\* bookmarks to pin: unfiled or in the folder "W", with no tag or both tags,
\* pinned or not
InitPinning ==
    /\ \E items \in Lists([url : {<<117>>}, title : {<<97>>}, description : {<<100>>},
                           folder_id : {NULL, 1}, tags : {{}, {1, 2}},
                           pinned : {0, 1}, at : {1}],
                          MaxPinnedBookmarks) :
          /\ db = StoreOf(FolderAndTagStore, items)
          /\ nextId = [folder |-> 3, bookmark |-> Len(items) + 1, tag |-> 3]
    /\ clock = 1
    /\ last = NoOp

SpecPinning ==
    InitPinning /\ [][\E bookmark_id \in 1..(MaxPinnedBookmarks + 1) : TogglePin(bookmark_id)]_vars

----------------------------------------------------------------------------
(* POST /folder/save *)

\* save_folder: update_folder when the form holds a folder_id, create_folder
\* otherwise; ValueError is caught and answered with a redirect to the edit
\* form of the folder (or, without folder_id, to the return url), everything
\* else with a redirect to the return url or the index page; a redirect is
\* a response with status 302 and the target
SaveFolder(folder_id, name, parent_id, return_url) ==
    /\ folder_id = NULL => nextId.folder <= MaxSavedFolders
    /\ LET r == IF folder_id # NULL
                THEN update_folder(get_db(db), folder_id, name, parent_id, clock)
                ELSE create_folder(get_db(db), nextId.folder, name, parent_id, clock)
           target == IF return_url # "" THEN return_url ELSE "main.index"
       IN /\ db' = close_db(r.conn)
          /\ nextId' = IF folder_id = NULL /\ r.raised = "none"
                       THEN [nextId EXCEPT !.folder = @ + 1] ELSE nextId
          /\ last' = [NoOp EXCEPT
                        !.op = "save_folder", !.raised = r.raised,
                        !.args.id = folder_id, !.args.name = name,
                        !.args.parent_id = parent_id, !.before = <<db>>,
                        !.value = IF r.raised = "ValueError" /\ folder_id # NULL
                                  THEN <<[status |-> 302,
                                          location |-> "main.edit_folder_form"]>>
                                  ELSE <<[status |-> 302, location |-> target]>>]
    /\ UNCHANGED clock

NextSaving ==
    \E folder_id \in {NULL} \cup FolderIds, name \in FolderNames,
       parent_id \in {NULL} \cup FolderIds, return_url \in {"", "/folders"} :
        SaveFolder(folder_id, name, parent_id, return_url)

SpecSaving == Init /\ [][NextSaving]_vars

----------------------------------------------------------------------------
(* updates as time passes *)

\* CURRENT_TIMESTAMP moves on
Tick ==
    /\ clock < MaxTouchClock
    /\ clock' = clock + 1
    /\ UNCHANGED <<db, nextId, last>>

UpdateTag(tag_id, name) ==
    /\ LET r == update_tag(get_db(db), tag_id, name, clock)
       IN /\ db' = close_db(r.conn)
          /\ last' = [NoOp EXCEPT !.op = "update_tag", !.raised = r.raised,
                                  !.args.id = tag_id, !.args.name = name]
    /\ UNCHANGED <<nextId, clock>>

\* two folders, two tags and at most MaxTouchedBookmarks bookmarks "a" at
\* "u", all created at time 1
InitTouching ==
    /\ \E items \in Lists([url : {<<117>>}, title : {<<97>>}, description : {<<>>},
                           folder_id : {NULL}, tags : {{}}, pinned : {0}, at : {1}],
                          MaxTouchedBookmarks) :
          /\ db = StoreOf(FolderAndTagStore, items)
          /\ nextId = [folder |-> 3, bookmark |-> Len(items) + 1, tag |-> 3]
    /\ clock = 1
    /\ last = NoOp

\* updates of stored and unknown rows, some of them failing: a move of a
\* folder under its child, a tag name in use, a tag listed twice
NextTouching ==
    \/ Tick
    \/ \E folder_id \in 1..3, parent_id \in {NULL, 2} :
          UpdateFolder(folder_id, <<87>>, parent_id)
    \/ \E tag_id \in 1..3, name \in {<<112, 121>>} : UpdateTag(tag_id, name)
    \/ \E bookmark_id \in 1..(MaxTouchedBookmarks + 1), tag_ids \in {<<>>, <<1, 1>>} :
          UpdateBookmark(bookmark_id, <<117>>, <<97>>, <<>>, NULL, tag_ids, NULL)

SpecTouching == InitTouching /\ [][NextTouching]_vars

----------------------------------------------------------------------------
(* the parent relation, read off the stored rows *)

\* the stored folders met by following parent references from folder i,
\* at most n steps
RECURSIVE Chain(_, _, _)
Chain(folders, i, n) ==
    IF n = 0 \/ i \notin DOMAIN folders THEN {}
    ELSE LET p == folders[i].parent_id
         IN IF p = NULL \/ p \notin DOMAIN folders THEN {}
            ELSE {p} \cup Chain(folders, p, n - 1)

Ancestors(folders, i) == Chain(folders, i, Cardinality(DOMAIN folders))

\* F together with the stored folders whose parent chain reaches F
Subtree(folders, F) == {F} \cup {i \in DOMAIN folders : F \in Ancestors(folders, i)}

\* C1: after any sequence of create_folder, update_folder and delete_folder
\* from the empty store, no stored folder is its own ancestor
C1_NoFolderIsItsOwnAncestor ==
    \A i \in DOMAIN db.folders : i \notin Ancestors(db.folders, i)

C1_Witness ==
    /\ last.op = "update_folder"
    /\ last.raised = "none"
    /\ \E i \in DOMAIN db.folders : Cardinality(Ancestors(db.folders, i)) >= 2

\* C2: update_folder(A, name, B) on a stored folder A raises the cyclic-move
\* error exactly when B is A or a folder below A, and then leaves A's row as
\* it was; for any other B (no parent included) it stores the name and parent
C2_UpdateFolderRejectsExactlyCyclicMoves ==
    [][ (last'.op = "update_folder" /\ last'.args.id \in DOMAIN db.folders) =>
          LET A == last'.args.id
              B == last'.args.parent_id
              cyclic == B # NULL /\ B \in Subtree(db.folders, A)
          IN /\ (last'.raised = "ValueError") <=> cyclic
             /\ cyclic => /\ A \in DOMAIN db'.folders
                          /\ db'.folders[A].name = db.folders[A].name
                          /\ db'.folders[A].parent_id = db.folders[A].parent_id
             /\ ~cyclic => /\ last'.raised = "none"
                           /\ A \in DOMAIN db'.folders
                           /\ db'.folders[A].name = last'.args.name
                           /\ db'.folders[A].parent_id = B ]_vars

\* a move under a grandchild was rejected
C2_Witness ==
    /\ last.op = "update_folder"
    /\ last.raised = "ValueError"
    /\ last.args.id \in DOMAIN db.folders
    /\ last.args.parent_id \in DOMAIN db.folders
    /\ last.args.id # last.args.parent_id
    /\ db.folders[last.args.parent_id].parent_id # last.args.id

\* C3: for a stored folder F, get_folder_with_descendants(F) lists F and
\* exactly the folders whose parent chain reaches F, each once, and so
\* includes the list of every direct child of F
C3_DescendantsAreTheSubtree ==
    (last.op = "get_folder_with_descendants" /\ last.args.id \in DOMAIN db.folders) =>
        LET F == last.args.id
            ids == last.value
        IN /\ Range(ids) = Subtree(db.folders, F)
           /\ Len(ids) = Cardinality(Range(ids))
           /\ F \in Range(ids)
           /\ \A c \in DOMAIN db.folders :
                 db.folders[c].parent_id = F =>
                     Range(get_descendants(db.folders, c)) \subseteq Range(ids)

C3_Witness ==
    /\ last.op = "get_folder_with_descendants"
    /\ last.args.id \in DOMAIN db.folders
    /\ Len(last.value) >= 3
    /\ \E c \in DOMAIN db.folders :
          /\ db.folders[c].parent_id = last.args.id
          /\ Len(get_descendants(db.folders, c)) >= 2

----------------------------------------------------------------------------
(* deletions and the rows that refer to the deleted row *)

\* C4: after delete_folder(F) every bookmark that was filed in F is still
\* stored and has no folder
C4_DeleteFolderUnfilesItsBookmarks ==
    [][ last'.op = "delete_folder" =>
          \A b \in DOMAIN db.bookmarks :
             db.bookmarks[b].folder_id = last'.args.id =>
                 /\ b \in DOMAIN db'.bookmarks
                 /\ db'.bookmarks[b].folder_id = NULL ]_vars

\* C5: every bookmark_tags row names a stored bookmark and a stored tag
C5_AssociationsNameStoredRows ==
    \A bt \in db.bookmark_tags :
        bt[1] \in DOMAIN db.bookmarks /\ bt[2] \in DOMAIN db.tags

----------------------------------------------------------------------------
(* the tag set of a bookmark under update_bookmark *)

\* C7: after a successful update_bookmark(B, ..., tag_ids) the tags of B are
\* exactly those of tag_ids, whatever they were before
C7_UpdateReplacesTheTagSet ==
    (last.op = "update_bookmark" /\ last.raised = "none") =>
        TagsOf(db, last.args.id) = Range(last.args.tag_ids)

\* one tag was dropped and another one added
C7_Witness ==
    /\ last.op = "update_bookmark"
    /\ last.raised = "none"
    /\ last.args.id \in DOMAIN db.bookmarks
    /\ Range(last.before) \ Range(last.args.tag_ids) # {}
    /\ Range(last.args.tag_ids) \ Range(last.before) # {}

\* C8: when update_bookmark raises, the bookmark stored once the request is
\* over has the old tag set or the new one, and the old fields or the new ones
C8_FailedUpdateLeavesOldOrNew ==
    [][ (/\ last'.op = "update_bookmark"
         /\ last'.raised # "none"
         /\ last'.args.id \in DOMAIN db.bookmarks) =>
          LET B == last'.args.id
              a == last'.args
          IN /\ B \in DOMAIN db'.bookmarks
             /\ \/ TagsOf(db', B) = TagsOf(db, B)
                \/ TagsOf(db', B) = Range(a.tag_ids)
             /\ \/ db'.bookmarks[B] = db.bookmarks[B]
                \/ /\ db'.bookmarks[B].url = a.url
                   /\ db'.bookmarks[B].title = a.title
                   /\ db'.bookmarks[B].description = a.description
                   /\ db'.bookmarks[B].folder_id = a.folder_id ]_vars

\* the second INSERT raised with the old tags deleted and one of two new
\* tags inserted, and the stored set is the old one
C8_Witness ==
    /\ last.op = "update_bookmark"
    /\ last.raised = "IntegrityError"
    /\ last.before # <<>>
    /\ Range(last.value) # Range(last.before)
    /\ Range(last.value) # Range(last.args.tag_ids)
    /\ last.value # <<>>
    /\ last.args.id \in DOMAIN db.bookmarks
    /\ db.bookmarks[last.args.id].title # last.args.title
    /\ TagsOf(db, last.args.id) = Range(last.before)

----------------------------------------------------------------------------
(* the listing of get_all_bookmarks *)

\* the listing for the filters and order of the last request, not paginated
FullListing ==
    LET a == last.args
    IN get_all_bookmarks(get_db(db), a.folder_id, a.tag_id, a.search, a.sort_by,
                         a.sort_order, a.include_subfolders, 1,
                         Cardinality(DOMAIN db.bookmarks) + 1).bookmarks

\* C9: for every folder scope, tag filter and search text, total is the
\* number of distinct bookmarks of the unpaginated listing for these filters
C9_TotalCountsTheListing ==
    last.op = "get_all_bookmarks" =>
        /\ last.total = Len(FullListing)
        /\ last.total = Cardinality(Range(FullListing))

\* a bookmark with two tags is listed under a folder, tag and search filter
\* that leave another bookmark out
C9_Witness ==
    /\ last.op = "get_all_bookmarks"
    /\ last.args.folder_id \in DOMAIN db.folders
    /\ last.args.tag_id # NULL
    /\ last.args.search # <<>>
    /\ last.total >= 1
    /\ last.total < Cardinality(DOMAIN db.bookmarks)
    /\ \E b \in Range(last.value) : Cardinality(TagsOf(db, b)) >= 2

\* the value of the sort field of a row is at most that of another row
FieldAtMost(sort_by, x, y) ==
    CASE sort_by = "title" -> ~TextLess(y.title, x.title)
      [] sort_by = "url" -> ~TextLess(y.url, x.url)
      [] OTHER -> x.created_at <= y.created_at

\* C10: in a listing every pinned bookmark comes before every unpinned one,
\* and bookmarks with the same pinned flag are in the requested direction of
\* the requested field, which is the creation time for an unknown field
C10_PinnedFirstThenRequestedOrder ==
    last.op = "get_all_bookmarks" =>
        \A i \in 1..Len(last.value) : \A j \in 1..Len(last.value) :
            i < j =>
                LET x == db.bookmarks[last.value[i]]
                    y == db.bookmarks[last.value[j]]
                IN /\ x.pinned >= y.pinned
                   /\ x.pinned = y.pinned =>
                         IF last.args.sort_order = "asc"
                         THEN FieldAtMost(last.args.sort_by, x, y)
                         ELSE FieldAtMost(last.args.sort_by, y, x)

\* ascending titles: the pinned bookmark is first although its title is
\* larger than that of the next one, and the two unpinned ones are in order
C10_Witness ==
    /\ last.op = "get_all_bookmarks"
    /\ last.args.sort_by = "title"
    /\ last.args.sort_order = "asc"
    /\ Len(last.value) = 3
    /\ db.bookmarks[last.value[1]].pinned = 1
    /\ db.bookmarks[last.value[2]].pinned = 0
    /\ db.bookmarks[last.value[3]].pinned = 0
    /\ TextLess(db.bookmarks[last.value[2]].title, db.bookmarks[last.value[1]].title)
    /\ TextLess(db.bookmarks[last.value[2]].title, db.bookmarks[last.value[3]].title)

----------------------------------------------------------------------------
(* pagination *)

\* page q of the listing for the filters, order and page size of the last
\* request
PageOf(q) ==
    LET a == last.args
    IN get_all_bookmarks(get_db(db), a.folder_id, a.tag_id, a.search, a.sort_by,
                         a.sort_order, a.include_subfolders, q, a.per_page).bookmarks

\* C11: page p of size s holds the items at zero-based positions (p-1)*s to
\* (p-1)*s+s-1 of the full ordered listing, total_pages is ceil(total/s), and
\* every matching bookmark is on exactly one of the pages 1..total_pages, once
C11_PagesPartitionTheListing ==
    last.op = "get_all_bookmarks" =>
        LET p == last.args.page
            s == last.args.per_page
            full == FullListing
            lo == (p - 1) * s
            n == IF Len(full) - lo > s THEN s
                 ELSE IF Len(full) > lo THEN Len(full) - lo ELSE 0
        IN /\ last.value = [i \in 1..n |-> full[lo + i]]
           /\ last.total_pages * s >= last.total
           /\ (last.total_pages - 1) * s < last.total
           /\ \A b \in Range(full) :
                 Cardinality({x \in (1..last.total_pages) \X (1..s) :
                                 /\ x[2] <= Len(PageOf(x[1]))
                                 /\ PageOf(x[1])[x[2]] = b}) = 1

\* the second and last page of three bookmarks, two to a page, where two
\* bookmarks have the same pinned flag and the same title
C11_Witness ==
    /\ last.op = "get_all_bookmarks"
    /\ last.args.page = 2
    /\ last.args.per_page = 2
    /\ last.args.sort_by = "title"
    /\ last.total = 3
    /\ last.total_pages = 2
    /\ Len(last.value) = 1
    /\ \E x \in DOMAIN db.bookmarks : \E y \in DOMAIN db.bookmarks :
          /\ x # y
          /\ db.bookmarks[x].pinned = db.bookmarks[y].pinned
          /\ db.bookmarks[x].title = db.bookmarks[y].title

----------------------------------------------------------------------------
(* the filters of get_all_bookmarks *)

\* the stored bookmarks whose folder reference is in a set
FiledIn(folder_ids) ==
    {b \in DOMAIN db.bookmarks : db.bookmarks[b].folder_id \in folder_ids}

\* the folder references the scope of the last request allows
ScopeOfRequest ==
    LET F == last.args.folder_id
    IN IF F = UNFILED THEN {NULL}
       ELSE IF last.args.include_subfolders THEN Subtree(db.folders, F)
       ELSE {F}

\* C12: scope 'unfiled' lists exactly the bookmarks without a folder; folder
\* F with include_subfolders exactly those filed in F or in a folder below F;
\* folder F without include_subfolders exactly those filed in F; a tag or
\* search filter only takes bookmarks away from these
C12_FolderScopeSelectsExactly ==
    (last.op = "get_all_bookmarks" /\ last.args.folder_id # NULL) =>
        /\ Range(last.value) \subseteq FiledIn(ScopeOfRequest)
        /\ (last.args.tag_id = NULL /\ last.args.search = <<>>) =>
               Range(last.value) = FiledIn(ScopeOfRequest)

\* a folder with its subfolders: the bookmark of the subfolder is listed,
\* the unfiled one is not
C12_Witness ==
    /\ last.op = "get_all_bookmarks"
    /\ last.args.folder_id \in DOMAIN db.folders
    /\ last.args.include_subfolders
    /\ last.args.tag_id = NULL
    /\ last.args.search = <<>>
    /\ \E b \in Range(last.value) :
          /\ db.bookmarks[b].folder_id # last.args.folder_id
          /\ db.bookmarks[b].folder_id \in DOMAIN db.folders
    /\ \E b \in DOMAIN db.bookmarks :
          db.bookmarks[b].folder_id = NULL /\ b \notin Range(last.value)

\* text t, compared up to ASCII case and character by character, is a
\* substring of text x
IsSubstring(t, x) ==
    \E i \in 0..(Len(x) - Len(t)) :
        \A k \in 1..Len(t) : Fold(t[k]) = Fold(x[i + k])

\* the listing for the folder and tag filter of the last request, without
\* its search text
ListingWithoutSearch ==
    LET a == last.args
    IN get_all_bookmarks(get_db(db), a.folder_id, a.tag_id, <<>>, a.sort_by,
                         a.sort_order, a.include_subfolders, 1,
                         Cardinality(DOMAIN db.bookmarks) + 1).bookmarks

\* C13: with search text t the listing holds exactly the bookmarks passing
\* the folder and tag filters of which the title, the URL or the description
\* contains t as a substring, compared case-insensitively and literally
C13_SearchIsLiteralSubstring ==
    (last.op = "get_all_bookmarks" /\ last.args.search # <<>>) =>
        Range(last.value) =
            {b \in Range(ListingWithoutSearch) :
                \/ IsSubstring(last.args.search, db.bookmarks[b].title)
                \/ IsSubstring(last.args.search, db.bookmarks[b].url)
                \/ IsSubstring(last.args.search, db.bookmarks[b].description)}

----------------------------------------------------------------------------
(* the tags and the folder name of a listed bookmark *)

\* the (id, name) pairs of the stored tags associated with a bookmark
TagPairs(b) ==
    {[id |-> IdText(t), name |-> db.tags[t].name] :
        t \in TagsOf(db, b) \cap DOMAIN db.tags}

\* C14: whatever the tag names, the tags list of every listed bookmark holds
\* exactly the (id, name) pairs of its tags, each once and each id with its
\* own name, as get_bookmark returns them, and folder_name is the name of its
\* folder, or null for an unfiled bookmark
C14_RowsCarryTagsAndFolderName ==
    last.op = "get_all_bookmarks" =>
        \A i \in 1..Len(last.rows) :
            LET row == last.rows[i]
                b == row.id
                folder_id == db.bookmarks[b].folder_id
            IN /\ Range(row.tags) = TagPairs(b)
               /\ Len(row.tags) = Cardinality(TagPairs(b))
               /\ Range(row.tags) = Range(get_bookmark(get_db(db), b)[1].tags)
               /\ row.folder_name = IF folder_id = NULL THEN <<>>
                                     ELSE <<db.folders[folder_id].name>>

----------------------------------------------------------------------------
(* the exported document *)

\* the positions of the nodes of a document: the child indexes from the root
RECURSIVE Paths(_)
Paths(node) ==
    {<<>>} \cup UNION {{<<i>> \o p : p \in Paths(node.children[i])} :
                          i \in 1..Len(node.children)}

RECURSIVE NodeAt(_, _)
NodeAt(node, path) ==
    IF path = <<>> THEN node ELSE NodeAt(node.children[Head(path)], Tail(path))

\* the position of the node a node is a child of
Above(path) == SubSeq(path, 1, Len(path) - 1)

\* the positions of the nodes of a type with a guid
PathsOf(doc, type, guid) ==
    {p \in Paths(doc) : NodeAt(doc, p).type = type /\ NodeAt(doc, p).guid = guid}

\* a node of a type and guid occurs once, as a child of the container with
\* the guid of its parent
OnceInside(doc, type, guid, parent_guid) ==
    \E p \in PathsOf(doc, type, guid) :
        /\ PathsOf(doc, type, guid) = {p}
        /\ p # <<>>
        /\ NodeAt(doc, Above(p)).type = PLACE_CONTAINER
        /\ NodeAt(doc, Above(p)).guid = parent_guid

\* the guid of the container for a folder reference: the toolbar for none
ContainerGuid(folder_id) == IF folder_id = NULL THEN TOOLBAR_GUID ELSE IdText(folder_id)

\* every parent and folder reference names a stored folder
NoDanglingFolder ==
    /\ \A f \in DOMAIN db.folders :
          db.folders[f].parent_id \in {NULL} \cup DOMAIN db.folders
    /\ \A b \in DOMAIN db.bookmarks :
          db.bookmarks[b].folder_id \in {NULL} \cup DOMAIN db.folders

\* C16: when every reference names a stored folder, the exported tree holds
\* every folder once, inside the container of its parent or under the
\* toolbar, and every bookmark once, inside the container of its folder or
\* under the toolbar, whatever the names of the folders
C16_ExportHoldsEveryFolderAndBookmark ==
    (last.op = "export_to_firefox_json" /\ NoDanglingFolder) =>
        LET doc == last.document[1]
        IN /\ \A f \in DOMAIN db.folders :
                 OnceInside(doc, PLACE_CONTAINER, IdText(f),
                            ContainerGuid(db.folders[f].parent_id))
           /\ \A b \in DOMAIN db.bookmarks :
                 OnceInside(doc, PLACE, IdText(b),
                            ContainerGuid(db.bookmarks[b].folder_id))

\* C17: a stored folder whose parent is not stored is exported as a
\* container directly under the toolbar, with its bookmarks and subfolders
\* inside it
C17_OrphanFolderIsExportedAsRoot ==
    last.op = "export_to_firefox_json" =>
        LET doc == last.document[1]
        IN \A f \in DOMAIN db.folders :
              (db.folders[f].parent_id \notin {NULL} \cup DOMAIN db.folders) =>
                  /\ OnceInside(doc, PLACE_CONTAINER, IdText(f), TOOLBAR_GUID)
                  /\ \A c \in DOMAIN db.folders :
                        db.folders[c].parent_id = f =>
                            OnceInside(doc, PLACE_CONTAINER, IdText(c), IdText(f))
                  /\ \A b \in DOMAIN db.bookmarks :
                        db.bookmarks[b].folder_id = f =>
                            OnceInside(doc, PLACE, IdText(b), IdText(f))

----------------------------------------------------------------------------
(* export followed by import *)

Bijections(A, B) ==
    {g \in [A -> B] : /\ \A x \in A : \A y \in A : g[x] = g[y] => x = y
                      /\ \A z \in B : \E x \in A : g[x] = z}

\* the names of the stored tags of a bookmark
TagNamesOf(store, b) ==
    {store.tags[t].name : t \in TagsOf(store, b) \cap DOMAIN store.tags}

\* two stores without dangling folder references hold the same folders and
\* bookmarks up to the ids
SameUpToIds(a, b) ==
    \E g \in Bijections(DOMAIN a.folders, DOMAIN b.folders) :
    \E h \in Bijections(DOMAIN a.bookmarks, DOMAIN b.bookmarks) :
        /\ \A f \in DOMAIN a.folders :
              /\ b.folders[g[f]].name = a.folders[f].name
              /\ b.folders[g[f]].parent_id =
                     IF a.folders[f].parent_id = NULL THEN NULL
                     ELSE g[a.folders[f].parent_id]
        /\ \A x \in DOMAIN a.bookmarks :
              /\ b.bookmarks[h[x]].url = a.bookmarks[x].url
              /\ b.bookmarks[h[x]].title = a.bookmarks[x].title
              /\ b.bookmarks[h[x]].description = a.bookmarks[x].description
              /\ b.bookmarks[h[x]].folder_id =
                     IF a.bookmarks[x].folder_id = NULL THEN NULL
                     ELSE g[a.bookmarks[x].folder_id]
              /\ TagNamesOf(b, h[x]) = TagNamesOf(a, x)

\* the store of a fresh installation after the import of a document
ImportedIntoEmptyStore(doc) ==
    close_db(import_from_firefox_json(
                 get_db(EmptyStore), [folder |-> 1, bookmark |-> 1, tag |-> 1],
                 doc, 1).conn)

\* C15: importing the export of a store (every reference naming a stored
\* folder) into an empty store gives the same folder names and parents, the
\* same bookmark URLs, titles, descriptions and folders, and the same tag
\* names on every bookmark, up to the ids
C15_ExportThenImportReproducesTheStore ==
    (last.op = "export_to_firefox_json" /\ NoDanglingFolder) =>
        SameUpToIds(db, ImportedIntoEmptyStore(last.document[1]))

----------------------------------------------------------------------------
(* the imported document *)

ImportedDocument == last.args.json_data[1]

\* the five containers that stand for no folder, by their guids
IsPassThrough(node) ==
    /\ node.type = PLACE_CONTAINER
    /\ node.guid \in {<<114, 111, 111, 116, 95, 95, 95, 95, 95, 95, 95, 95>>,
                       <<109, 101, 110, 117, 95, 95, 95, 95, 95, 95, 95, 95>>,
                       <<117, 110, 102, 105, 108, 101, 100, 95, 95, 95, 95, 95>>,
                       <<109, 111, 98, 105, 108, 101, 95, 95, 95, 95, 95, 95>>,
                       <<116, 111, 111, 108, 98, 97, 114, 95, 95, 95, 95, 95>>}

IsFolderContainer(node) == node.type = PLACE_CONTAINER /\ ~IsPassThrough(node)

HasTitle(node) == node.title.k = "value" /\ node.title.v # <<>>

\* the positions strictly above a position
PathsAbove(path) == {SubSeq(path, 1, n) : n \in 0..(Len(path) - 1)}

\* the rows the import created for the node at a position
CreatedAt(path, table) ==
    {e \in Range(last.created) : e.path = path /\ e.table = table}

\* the rows the import created for the nodes below a position
CreatedBelow(path) ==
    {e \in Range(last.created) : path \in PathsAbove(e.path)}

\* the position of the nearest non-pass-through container above a position,
\* in a list, or the empty list when there is none
NearestFolderContainer(path) ==
    LET above == {q \in PathsAbove(path) : IsFolderContainer(NodeAt(ImportedDocument, q))}
    IN IF above = {} THEN <<>>
       ELSE <<CHOOSE q \in above : \A r \in above : Len(r) <= Len(q)>>

\* the folder or bookmark row of a created entry refers to a folder or none
ParentOf(e) ==
    IF e.table = "folders" THEN db.folders[e.id].parent_id
    ELSE db.bookmarks[e.id].folder_id

\* a created row is parented to the folder created for the nearest
\* non-pass-through container above its node, or to none
ParentedToScope(e) ==
    LET q == NearestFolderContainer(e.path)
    IN IF q = <<>> THEN ParentOf(e) = NULL
       ELSE \E f \in CreatedAt(q[1], "folders") :
               CreatedAt(q[1], "folders") = {f} /\ ParentOf(e) = f.id

\* C18: a container with one of the five pass-through guids creates no
\* folder, at any depth, and every folder or bookmark the import creates has
\* as parent the folder created for the nearest non-pass-through container
\* above it, or none when there is no such container
C18_PassThroughContainersKeepTheScope ==
    last.op = "import_from_firefox_json" =>
        /\ \A p \in Paths(ImportedDocument) :
              IsPassThrough(NodeAt(ImportedDocument, p)) => CreatedAt(p, "folders") = {}
        /\ \A e \in Range(last.created) :
              /\ e.id \in DOMAIN (IF e.table = "folders" THEN db.folders ELSE db.bookmarks)
              /\ ParentedToScope(e)

\* a bookmark inside a pass-through container inside a folder container is
\* filed in the folder of that container
C18_Witness ==
    /\ last.op = "import_from_firefox_json"
    /\ \E e \in Range(last.created) :
          /\ e.table = "bookmarks"
          /\ Len(e.path) = 2
          /\ IsPassThrough(NodeAt(ImportedDocument, Above(e.path)))
          /\ IsFolderContainer(ImportedDocument)
          /\ db.bookmarks[e.id].folder_id \in DOMAIN db.folders
          /\ CreatedAt(<<>>, "folders") # {}

\* every node above a position is a pass-through container or a
\* non-pass-through container with a title
BelowTitledContainers(path) ==
    \A q \in PathsAbove(path) :
        LET n == NodeAt(ImportedDocument, q)
        IN IsPassThrough(n) \/ (IsFolderContainer(n) /\ HasTitle(n))

\* the node at a position created exactly one folder, parented to the scope
OneFolderInScope(path) ==
    \E e \in CreatedAt(path, "folders") :
        CreatedAt(path, "folders") = {e} /\ ParentedToScope(e)

\* C19 as stated: a non-pass-through container without title (key missing,
\* null or empty) creates no folder and nothing is imported from below it;
\* one with a title creates exactly one folder parented to the scope
C19_UntitledContainersAreSkipped ==
    last.op = "import_from_firefox_json" =>
        \A p \in Paths(ImportedDocument) :
            LET n == NodeAt(ImportedDocument, p)
            IN (IsFolderContainer(n) /\ BelowTitledContainers(p)) =>
                  IF HasTitle(n) THEN OneFolderInScope(p)
                  ELSE CreatedAt(p, "folders") = {} /\ CreatedBelow(p) = {}

\* every node above a position is a pass-through container or a
\* non-pass-through container whose title is a non-empty text or missing
BelowNamedContainers(path) ==
    \A q \in PathsAbove(path) :
        LET n == NodeAt(ImportedDocument, q)
        IN IsPassThrough(n)
           \/ (IsFolderContainer(n) /\ (HasTitle(n) \/ n.title.k = "missing"))

\* C19 as amended: a non-pass-through container whose title is null or empty
\* creates no folder and nothing is imported from below it; one without the
\* title key creates exactly one folder, named 'Untitled Folder'; one with a
\* non-empty title creates exactly one folder of that name; the folder is
\* parented to the scope
C19_NullOrEmptyTitleIsSkipped ==
    last.op = "import_from_firefox_json" =>
        \A p \in Paths(ImportedDocument) :
            LET n == NodeAt(ImportedDocument, p)
            IN (IsFolderContainer(n) /\ BelowNamedContainers(p)) =>
                  IF n.title.k = "missing" \/ HasTitle(n)
                  THEN /\ OneFolderInScope(p)
                       /\ \A e \in CreatedAt(p, "folders") :
                             db.folders[e.id].name =
                                 IF HasTitle(n) THEN n.title.v
                                 ELSE <<85, 110, 116, 105, 116, 108, 101, 100, 32,
                                        70, 111, 108, 100, 101, 114>>
                  ELSE CreatedAt(p, "folders") = {} /\ CreatedBelow(p) = {}

\* a container without the title key became the folder 'Untitled Folder',
\* and the bookmark inside a container with a null title inside it was not
\* imported
C19_Witness ==
    /\ last.op = "import_from_firefox_json"
    /\ ImportedDocument.title.k = "missing"
    /\ IsFolderContainer(ImportedDocument)
    /\ Cardinality(DOMAIN db.folders) = 1
    /\ \E p \in Paths(ImportedDocument) :
          /\ Len(p) = 2
          /\ NodeAt(ImportedDocument, p).type = PLACE
          /\ IsFolderContainer(NodeAt(ImportedDocument, Above(p)))
          /\ NodeAt(ImportedDocument, Above(p)).title.k = "null"
    /\ db.bookmarks = <<>>

\* C20: a node that is neither a container nor a bookmark creates nothing
\* itself, and the bookmarks and titled containers among its children are
\* imported into the scope of the node
C20_ChildrenOfOtherNodesAreImported ==
    last.op = "import_from_firefox_json" =>
        \A p \in Paths(ImportedDocument) :
            LET n == NodeAt(ImportedDocument, p)
            IN (n.type \notin {PLACE_CONTAINER, PLACE} /\ BelowTitledContainers(p)) =>
                  /\ CreatedAt(p, "folders") = {}
                  /\ CreatedAt(p, "bookmarks") = {}
                  /\ \A i \in 1..Len(n.children) :
                        LET c == n.children[i]
                            at == Append(p, i)
                        IN /\ (c.type = PLACE /\ c.uri # <<>>) =>
                                 \E e \in CreatedAt(at, "bookmarks") :
                                     /\ CreatedAt(at, "bookmarks") = {e}
                                     /\ ParentedToScope(e)
                           /\ (IsFolderContainer(c) /\ HasTitle(c)) => OneFolderInScope(at)

\* a bookmark leaf
IsLeaf(node) == node.type = PLACE

\* the value of the first annotation named bookmarkProperties/description,
\* or the empty text

FirstDescription(annos) ==
    LET at == {i \in 1..Len(annos) : annos[i].name = "bookmarkProperties/description"}
    IN IF at = {} THEN <<>>
       ELSE annos[CHOOSE i \in at : \A j \in at : i <= j].value

\* C21: the import succeeds; a bookmark leaf creates a bookmark exactly when
\* it has a URL; the stored title is the title of the leaf, or the URL when
\* the leaf has no title (key missing, null or empty); the stored
\* description is the value of the first description annotation, or empty
C21_LeafWithUrlBecomesBookmark ==
    last.op = "import_from_firefox_json" =>
        /\ last.raised = "none"
        /\ \A p \in Paths(ImportedDocument) :
              LET n == NodeAt(ImportedDocument, p)
              IN IsLeaf(n) =>
                    IF n.uri = <<>> THEN CreatedAt(p, "bookmarks") = {}
                    ELSE \E e \in CreatedAt(p, "bookmarks") :
                            /\ CreatedAt(p, "bookmarks") = {e}
                            /\ e.id \in DOMAIN db.bookmarks
                            /\ db.bookmarks[e.id].url = n.uri
                            /\ db.bookmarks[e.id].title =
                                   IF HasTitle(n) THEN n.title.v ELSE n.uri
                            /\ db.bookmarks[e.id].description = FirstDescription(n.annos)

\* a text without the blanks at its ends
RECURSIVE Trimmed(_)
Trimmed(text) ==
    IF text # <<>> /\ text[1] = 32 THEN Trimmed(Tail(text))
    ELSE IF text # <<>> /\ text[Len(text)] = 32
    THEN Trimmed(SubSeq(text, 1, Len(text) - 1))
    ELSE text

\* the pieces of a text between its commas
Pieces(text) ==
    LET cuts == {0, Len(text) + 1} \cup {i \in 1..Len(text) : text[i] = 44}
    IN {SubSeq(text, i + 1, j - 1) :
           <<i, j>> \in {c \in cuts \X cuts :
                            c[1] < c[2] /\ \A k \in cuts : ~(c[1] < k /\ k < c[2])}}

\* the distinct non-empty trimmed tag names of a leaf
LeafTagNames(node) == {Trimmed(x) : x \in Pieces(node.tags)} \ {<<>>}

StoreBefore == last.before[1]

\* C22: the import does not fail; the bookmark of a leaf is associated with
\* exactly the distinct non-empty trimmed tag names of the leaf; the tags
\* stored before keep their ids, no two tags share a name, and stats.tags
\* is the number of tag rows added; importing the same document again
\* reports zero new tags
C22_TagsAreReusedOrCreated ==
    last.op = "import_from_firefox_json" =>
        /\ last.raised = "none"
        /\ \A p \in Paths(ImportedDocument) :
              LET n == NodeAt(ImportedDocument, p)
              IN (IsLeaf(n) /\ n.uri # <<>>) =>
                    \E e \in CreatedAt(p, "bookmarks") :
                        /\ CreatedAt(p, "bookmarks") = {e}
                        /\ e.id \in DOMAIN db.bookmarks
                        /\ TagsOf(db, e.id) \subseteq DOMAIN db.tags
                        /\ TagNamesOf(db, e.id) = LeafTagNames(n)
                        /\ Cardinality(TagsOf(db, e.id)) = Cardinality(LeafTagNames(n))
        /\ \A t \in DOMAIN StoreBefore.tags :
              t \in DOMAIN db.tags /\ db.tags[t].name = StoreBefore.tags[t].name
        /\ \A t, u \in DOMAIN db.tags : db.tags[t].name = db.tags[u].name => t = u
        /\ last.stats.tags =
              Cardinality(DOMAIN db.tags) - Cardinality(DOMAIN StoreBefore.tags)
        /\ import_from_firefox_json(get_db(db), nextId, ImportedDocument,
                                    clock).stats.tags = 0

\* the well-formed JSON documents over the lexemes: a value is a string, an
\* array of values separated by commas or an object of string : value
\* members separated by commas; NaN is no JSON value
RECURSIVE IsJsonValue(_), IsJsonElements(_), IsJsonMembers(_)
IsJsonValue(t) ==
    \/ t = <<"s">>
    \/ /\ Len(t) >= 2
       /\ t[1] = "[" /\ t[Len(t)] = "]"
       /\ (Len(t) = 2 \/ IsJsonElements(SubSeq(t, 2, Len(t) - 1)))
    \/ /\ Len(t) >= 2
       /\ t[1] = "{" /\ t[Len(t)] = "}"
       /\ (Len(t) = 2 \/ IsJsonMembers(SubSeq(t, 2, Len(t) - 1)))

IsJsonElements(t) ==
    \/ IsJsonValue(t)
    \/ \E i \in 2..(Len(t) - 1) :
          /\ t[i] = ","
          /\ IsJsonValue(SubSeq(t, 1, i - 1))
          /\ IsJsonElements(SubSeq(t, i + 1, Len(t)))

IsJsonMembers(t) ==
    \/ /\ Len(t) >= 3
       /\ t[1] = "s" /\ t[2] = ":"
       /\ IsJsonValue(SubSeq(t, 3, Len(t)))
    \/ \E i \in 4..(Len(t) - 1) :
          /\ t[i] = ","
          /\ t[1] = "s" /\ t[2] = ":"
          /\ IsJsonValue(SubSeq(t, 3, i - 1))
          /\ IsJsonMembers(SubSeq(t, i + 1, Len(t)))

\* C23: for a content that is not a well-formed JSON document the request
\* fails with ValueError whose message starts with 'Invalid JSON format'
\* and carries the diagnostic of the parser, and the store is unchanged
C23_MalformedFileFailsAndChangesNothing ==
    (last.op = "import_firefox" /\ ~IsJsonValue(last.args.file_content)) =>
        /\ last.raised = "ValueError"
        /\ Len(last.value) = 2
        /\ last.value[1] = "Invalid JSON format: "
        /\ last.value[2] # ""
        /\ db = StoreBefore

\* some folder is its own ancestor
HasCycle == \E i \in DOMAIN db.folders : i \in Ancestors(db.folders, i)

\* C29: after two concurrent folder updates, each a check followed by a
\* write, have both completed, the parent relation contains no cycle
C29_NoCycleAfterConcurrentUpdates ==
    RequestsCompleted => ~HasCycle

\* C24: get_folder_with_descendants, the ancestor walk of get_folder and
\* get_folder_hierarchy terminate in every stored state: the walk returns
\* and the recursion does not run until the stack is exhausted
C24_FolderWalksTerminate ==
    /\ last.op # "get_folder never returns"
    /\ last.op = "get_folder_with_descendants" => last.raised = "none"

\* the parent reference of a folder names a stored folder
HasStoredParent(i) ==
    db.folders[i].parent_id # NULL /\ db.folders[i].parent_id \in DOMAIN db.folders

\* a list of stored folders, each the parent of the next, from a folder
\* without stored parent down to the parent of folder i
IsParentChain(chain, i) ==
    /\ \A k \in 1..Len(chain) : chain[k] \in DOMAIN db.folders /\ chain[k] # i
    /\ (chain = <<>>) = ~HasStoredParent(i)
    /\ chain # <<>> =>
          /\ chain[Len(chain)] = db.folders[i].parent_id
          /\ ~HasStoredParent(chain[1])
          /\ \A k \in 1..(Len(chain) - 1) : chain[k] = db.folders[chain[k + 1]].parent_id

\* C25: get_folder returns none for an id that is not stored; otherwise its
\* parent_chain lists the stored ancestors from the topmost one down to the
\* immediate parent, without the folder itself, and ends without error at
\* the first parent reference to a folder that is not stored
C25_ParentChainIsTopDown ==
    last.op \in {"get_folder", "get_folder never returns"} =>
        /\ last.op = "get_folder"
        /\ IF last.args.id \notin DOMAIN db.folders THEN last.value = <<>>
           ELSE /\ Len(last.value) = 1
                /\ last.value[1].id = last.args.id
                /\ IsParentChain(last.value[1].parent_chain, last.args.id)

\* the store with the pinned flag and created_at of bookmark b left out
ApartFromPin(store, b) ==
    [store EXCEPT !.bookmarks =
        [i \in DOMAIN store.bookmarks |->
            IF i = b THEN [store.bookmarks[i] EXCEPT !.pinned = 0, !.created_at = 0]
            ELSE store.bookmarks[i]]]

\* C26: toggle_pin of a stored bookmark B flips its pinned flag and returns
\* the new value, a second call right after the first restores the flag,
\* and the URL, title, description, folder, favicon and tag set of B (and
\* every other row) stay as they were; for an id that is not stored it
\* returns the not-found signal and changes nothing
C26_TogglePinFlipsOnlyTheFlag ==
    [][last'.op = "toggle_pin" =>
          LET B == last'.args.id
          IN IF B \in DOMAIN db.bookmarks
             THEN /\ B \in DOMAIN db'.bookmarks
                  /\ db'.bookmarks[B].pinned = 1 - db.bookmarks[B].pinned
                  /\ last'.value = <<db'.bookmarks[B].pinned>>
                  /\ ApartFromPin(db', B) = ApartFromPin(db, B)
                  /\ TagsOf(db', B) = TagsOf(db, B)
                  /\ (last.op = "toggle_pin" /\ last.args.id = B) =>
                        db'.bookmarks[B].pinned = last.before[1].bookmarks[B].pinned
             ELSE last'.value = <<>> /\ db' = db]_vars

\* a pinned bookmark with both tags in the folder has been toggled twice
C26_Witness ==
    /\ last.op = "toggle_pin"
    /\ clock = 3
    /\ last.args.id \in DOMAIN db.bookmarks
    /\ last.before[1].bookmarks[last.args.id].pinned = 0
    /\ db.bookmarks[last.args.id].pinned = 1
    /\ db.bookmarks[last.args.id].folder_id = 1
    /\ TagsOf(db, last.args.id) = {1, 2}
    /\ db.bookmarks[last.args.id].created_at = 3

\* the last folder save asked to move a stored folder under itself or one of
\* its descendants
CyclicSave ==
    /\ last.op = "save_folder"
    /\ last.args.id \in DOMAIN StoreBefore.folders
    /\ last.args.parent_id \in Subtree(StoreBefore.folders, last.args.id)

\* C27: a folder save that would move the folder under one of its own
\* descendants is answered with status 400, unlike a successful save, and
\* leaves the name and the parent of the folder unchanged
C27_CyclicSaveIsAnsweredWith400 ==
    CyclicSave =>
        /\ last.value[1].status = 400
        /\ db.folders[last.args.id].name = StoreBefore.folders[last.args.id].name
        /\ db.folders[last.args.id].parent_id = StoreBefore.folders[last.args.id].parent_id

\* the creation times of the rows of a table
CreatedAtOf(table) == [i \in DOMAIN table |-> table[i].created_at]

\* the table of a store an update operates on
UpdatedTable(store, op) ==
    IF op = "update_folder" THEN store.folders
    ELSE IF op = "update_tag" THEN store.tags
    ELSE store.bookmarks

\* C28: a successful update_folder, update_tag or update_bookmark of a
\* stored row sets its created_at to the time of the update, which is later
\* than the value before whenever the clock has advanced since, and leaves
\* the created_at of every other row as it was
C28_UpdateRefreshesCreatedAt ==
    [][(/\ clock' = clock
        /\ last'.op \in {"update_folder", "update_tag", "update_bookmark"}
        /\ last'.raised = "none"
        /\ last'.args.id \in DOMAIN UpdatedTable(db, last'.op)) =>
          LET id == last'.args.id
              before == UpdatedTable(db, last'.op)
              after == UpdatedTable(db', last'.op)
          IN /\ id \in DOMAIN after
             /\ after[id].created_at = clock
             /\ before[id].created_at < clock => before[id].created_at < after[id].created_at
             /\ \A i \in DOMAIN before \ {id} :
                   i \in DOMAIN after /\ after[i].created_at = before[i].created_at
             /\ \A op \in {"update_folder", "update_tag", "update_bookmark"} \ {last'.op} :
                   CreatedAtOf(UpdatedTable(db', op)) = CreatedAtOf(UpdatedTable(db, op))]_vars

\* every kind of row has been updated after its creation, the second folder
\* later than the first
C28_Witness ==
    /\ db.folders[1].created_at = 2
    /\ db.folders[2].created_at = 3
    /\ db.tags[1].created_at = 2
    /\ db.tags[2].created_at = 1
    /\ 1 \in DOMAIN db.bookmarks
    /\ db.bookmarks[1].created_at = 3
    /\ last.op = "update_bookmark"

\* C30: when import_from_firefox_json fails with an error partway through
\* a document, nothing the import created before the error remains: the
\* store after the request is the store before it
C30_FailedImportLeavesNothing ==
    (last.op = "import_from_firefox_json" /\ last.raised # "none") =>
        db = StoreBefore

====
